---- MODULE Spec2Model ----
(***************************************************************************)
(* Model of the spreadsheet import path of membercommons (src/import.rs):  *)
(* read_excel_file, insert_project_record and the import_excel_data        *)
(* handler.                                                                *)
(*                                                                         *)
(* Text is a sequence of one-character strings, so that trimming,          *)
(* lower-casing, formatting and parsing are computed character by          *)
(* character.  Option<T> is a sequence of length 0 (None) or 1 (Some).     *)
(* An f64 is [k, c]: k = "fin" with c the value in hundredths, or one of   *)
(* "nan", "inf", "ninf".  Texts of the model carry at most two fraction    *)
(* digits and no exponent, for which this representation is exact.         *)
(***************************************************************************)
EXTENDS Integers, Sequences, FiniteSets, TLC

\* ------------------------------------------------------------------ bounds

\* Data rows of a sheet of mixed rows (the header row not counted).
MaxRows == 3
\* Data rows of a sheet of uniform rows: the size of the largest batch.
MaxBatch == 5
\* Sheets of a workbook.
MaxSheets == 2

\* ------------------------------------------------------------------ Option

None == << >>
Some(v) == << v >>
IsSome(o) == Len(o) = 1
IsNone(o) == Len(o) = 0
Unwrap(o) == o[1]

\* ------------------------------------------------------------------ text

UpperChars == <<"A", "B", "C", "D", "E", "F", "G", "H", "I", "J", "K", "L", "M",
                "N", "O", "P", "Q", "R", "S", "T", "U", "V", "W", "X", "Y", "Z">>
LowerChars == <<"a", "b", "c", "d", "e", "f", "g", "h", "i", "j", "k", "l", "m",
                "n", "o", "p", "q", "r", "s", "t", "u", "v", "w", "x", "y", "z">>
DigitChars == <<"0", "1", "2", "3", "4", "5", "6", "7", "8", "9">>

\* char::is_whitespace, on the characters of the model
IsWhitespace(c) == c \in {" ", "\t", "\n", "\r"}

CharToLowercase(c) ==
    IF \E i \in 1..Len(UpperChars) : UpperChars[i] = c
    THEN LowerChars[CHOOSE i \in 1..Len(UpperChars) : UpperChars[i] = c]
    ELSE c

\* str::to_lowercase
ToLowercase(s) == [i \in 1..Len(s) |-> CharToLowercase(s[i])]

RECURSIVE TrimStart(_)
TrimStart(s) ==
    IF s # << >> /\ IsWhitespace(Head(s)) THEN TrimStart(Tail(s)) ELSE s

RECURSIVE TrimEnd(_)
TrimEnd(s) ==
    IF s # << >> /\ IsWhitespace(s[Len(s)])
    THEN TrimEnd(SubSeq(s, 1, Len(s) - 1))
    ELSE s

\* str::trim
Trim(s) == TrimEnd(TrimStart(s))

\* str::contains
Contains(s, pat) ==
    \E i \in 0..(Len(s) - Len(pat)) : SubSeq(s, i + 1, i + Len(pat)) = pat

IsDigit(c) == \E i \in 1..Len(DigitChars) : DigitChars[i] = c
DigitValue(c) == (CHOOSE i \in 1..Len(DigitChars) : DigitChars[i] = c) - 1

RECURSIVE NatToString(_)
NatToString(n) ==
    IF n < 10 THEN << DigitChars[n + 1] >>
    ELSE NatToString(n \div 10) \o << DigitChars[(n % 10) + 1] >>

RECURSIVE DigitsValue(_)
DigitsValue(s) ==
    IF s = << >> THEN 0
    ELSE 10 * DigitsValue(SubSeq(s, 1, Len(s) - 1)) + DigitValue(s[Len(s)])

AllDigits(s) == \A i \in 1..Len(s) : IsDigit(s[i])

\* ------------------------------------------------------------------ f64

Fin(c) == [k |-> "fin", c |-> c]
NaN == [k |-> "nan", c |-> 0]
PosInf == [k |-> "inf", c |-> 0]
NegInf == [k |-> "ninf", c |-> 0]

\* an amount of whole units and hundredths
Amount(units, hundredths) == Fin(units * 100 + hundredths)

\* f64 >= on a finite right-hand side given in hundredths; false for NaN
F64Ge(x, c) == \/ x.k = "inf"
               \/ x.k = "fin" /\ x.c >= c

\* impl Display for f64 (shortest decimal text, no exponent)
F64ToString(x) ==
    CASE x.k = "nan" -> <<"N", "a", "N">>
      [] x.k = "inf" -> <<"i", "n", "f">>
      [] x.k = "ninf" -> <<"-", "i", "n", "f">>
      [] OTHER ->
           LET a == IF x.c < 0 THEN 0 - x.c ELSE x.c
               units == a \div 100
               frac == a % 100
               sign == IF x.c < 0 THEN <<"-">> ELSE << >>
               fracText == IF frac = 0 THEN << >>
                           ELSE IF frac % 10 = 0
                                THEN <<".", DigitChars[(frac \div 10) + 1]>>
                                ELSE <<".", DigitChars[(frac \div 10) + 1],
                                            DigitChars[(frac % 10) + 1]>>
           IN  sign \o NatToString(units) \o fracText

IndexOfDot(s) ==
    IF \E i \in 1..Len(s) : s[i] = "."
    THEN CHOOSE i \in 1..Len(s) : s[i] = "." /\ \A j \in 1..(i - 1) : s[j] # "."
    ELSE 0

\* the unsigned decimal part of <f64 as FromStr>::from_str
ParseDecimal(s) ==
    LET dot == IndexOfDot(s)
        ip == IF dot = 0 THEN s ELSE SubSeq(s, 1, dot - 1)
        fp == IF dot = 0 THEN << >> ELSE SubSeq(s, dot + 1, Len(s))
        fp2 == IF Len(fp) = 0 THEN <<"0", "0">>
               ELSE IF Len(fp) = 1 THEN fp \o <<"0">>
               ELSE SubSeq(fp, 1, 2)
    IN  IF AllDigits(ip) /\ AllDigits(fp) /\ Len(ip) + Len(fp) > 0
        THEN Some(DigitsValue(ip) * 100 + DigitsValue(fp2))
        ELSE None

\* <f64 as FromStr>::from_str(s).ok()
ParseF64(s) ==
    LET signed == s # << >> /\ Head(s) \in {"+", "-"}
        neg == s # << >> /\ Head(s) = "-"
        body == IF signed THEN Tail(s) ELSE s
        low == ToLowercase(body)
        dec == ParseDecimal(body)
    IN  IF low = <<"n", "a", "n">> THEN Some(NaN)
        ELSE IF low \in {<<"i", "n", "f">>, <<"i", "n", "f", "i", "n", "i", "t", "y">>}
             THEN Some(IF neg THEN NegInf ELSE PosInf)
        ELSE IF IsSome(dec)
             THEN Some(Fin(IF neg THEN 0 - Unwrap(dec) ELSE Unwrap(dec)))
        ELSE None

\* ------------------------------------------------------------------ cells

\* calamine::Data: t is the variant, s its text payload (String, and the
\* display text of Bool and of the remaining variants), f its numeric payload
\* (Float, and Int as a whole number).
DataEmpty == [t |-> "Empty", s |-> << >>, f |-> Fin(0)]
DataString(s) == [t |-> "String", s |-> s, f |-> Fin(0)]
DataFloat(x) == [t |-> "Float", s |-> << >>, f |-> x]
DataInt(i) == [t |-> "Int", s |-> << >>, f |-> Fin(i * 100)]
DataBool(b) ==
    [t |-> "Bool",
     s |-> IF b THEN <<"t", "r", "u", "e">> ELSE <<"f", "a", "l", "s", "e">>,
     f |-> Fin(0)]
\* Data::Error, shown as the spreadsheet shows it
DataError(s) == [t |-> "Error", s |-> s, f |-> Fin(0)]

\* impl Display for Data
CellToString(cell) ==
    CASE cell.t = "Empty" -> << >>
      [] cell.t = "String" -> cell.s
      [] cell.t = "Float" -> F64ToString(cell.f)
      [] cell.t = "Int" -> F64ToString(cell.f)
      [] OTHER -> cell.s

\* ------------------------------------------------------------------ records

ProjectRecord ==
    [fiscal_year |-> None, project_number |-> None, project_type |-> None,
     region |-> None, country |-> None, department |-> None,
     framework |-> None, project_name |-> None, committed |-> None,
     naics_sector |-> None, project_description |-> None,
     project_profile_url |-> None]

\* the header text of a first-row cell
\* (a variant that keeps the letter case)
HeaderNoLowercase(cell) == Trim(CellToString(cell))
HeaderOf(cell) == Trim(ToLowercase(CellToString(cell)))

\* headers: column index (from 0) -> header text
HeadersOf(first_row) ==
    [col_idx \in 0..(Len(first_row) - 1) |-> HeaderOf(first_row[col_idx + 1])]

\* the Option<String> taken from a data cell
CellValue(cell) ==
    CASE cell.t = "Empty" -> None
      [] cell.t = "String" ->
           IF Trim(cell.s) = << >> THEN None ELSE Some(Trim(cell.s))
      [] OTHER -> Some(CellToString(cell))

\* value.and_then(|v| v.parse::<f64>().ok())
\* (a variant that reads an amount of zero from text that is no number)
ParseCommittedOrZero(value) ==
    IF IsNone(value) THEN None
    ELSE IF IsSome(ParseF64(Unwrap(value))) THEN ParseF64(Unwrap(value))
    ELSE Some(Fin(0))
ParseCommitted(value) == IF IsSome(value) THEN ParseF64(Unwrap(value)) ELSE None

\* the field a header names: the arms of the match on header.as_str()
\* (a variant with an arm for the header "notes")
FieldOfWithNotes(header) ==
    CASE header = <<"f", "i", "s", "c", "a", "l", " ", "y", "e", "a", "r">> -> "fiscal_year"
      [] header = <<"p", "r", "o", "j", "e", "c", "t", " ", "n", "u", "m", "b", "e", "r">> -> "project_number"
      [] header = <<"p", "r", "o", "j", "e", "c", "t", " ", "t", "y", "p", "e">> -> "project_type"
      [] header = <<"r", "e", "g", "i", "o", "n">> -> "region"
      [] header = <<"c", "o", "u", "n", "t", "r", "y">> -> "country"
      [] header = <<"d", "e", "p", "a", "r", "t", "m", "e", "n", "t">> -> "department"
      [] header = <<"f", "r", "a", "m", "e", "w", "o", "r", "k">> -> "framework"
      [] header = <<"p", "r", "o", "j", "e", "c", "t", " ", "n", "a", "m", "e">> -> "project_name"
      [] header = <<"c", "o", "m", "m", "i", "t", "t", "e", "d">> -> "committed"
      [] header = <<"n", "a", "i", "c", "s", " ", "s", "e", "c", "t", "o", "r">> -> "naics_sector"
      [] header = <<"p", "r", "o", "j", "e", "c", "t", " ", "d", "e", "s", "c", "r", "i", "p", "t", "i", "o", "n">> -> "project_description"
      [] header = <<"p", "r", "o", "j", "e", "c", "t", " ", "p", "r", "o", "f", "i", "l", "e", " ", "u", "r", "l">> -> "project_profile_url"
      [] header = <<"n", "o", "t", "e", "s">> -> "project_description"
      [] OTHER -> "ignored"
FieldOf(header) ==
    CASE header = <<"f", "i", "s", "c", "a", "l", " ", "y", "e", "a", "r">> -> "fiscal_year"
      [] header = <<"p", "r", "o", "j", "e", "c", "t", " ", "n", "u", "m", "b", "e", "r">> -> "project_number"
      [] header = <<"p", "r", "o", "j", "e", "c", "t", " ", "t", "y", "p", "e">> -> "project_type"
      [] header = <<"r", "e", "g", "i", "o", "n">> -> "region"
      [] header = <<"c", "o", "u", "n", "t", "r", "y">> -> "country"
      [] header = <<"d", "e", "p", "a", "r", "t", "m", "e", "n", "t">> -> "department"
      [] header = <<"f", "r", "a", "m", "e", "w", "o", "r", "k">> -> "framework"
      [] header = <<"p", "r", "o", "j", "e", "c", "t", " ", "n", "a", "m", "e">> -> "project_name"
      [] header = <<"c", "o", "m", "m", "i", "t", "t", "e", "d">> -> "committed"
      [] header = <<"n", "a", "i", "c", "s", " ", "s", "e", "c", "t", "o", "r">> -> "naics_sector"
      [] header = <<"p", "r", "o", "j", "e", "c", "t", " ", "d", "e", "s", "c", "r", "i", "p", "t", "i", "o", "n">> -> "project_description"
      [] header = <<"p", "r", "o", "j", "e", "c", "t", " ", "p", "r", "o", "f", "i", "l", "e", " ", "u", "r", "l">> -> "project_profile_url"
      [] OTHER -> "ignored"

\* one cell of a data row assigned to its field
\* (a variant that keeps the value a field already has)
AssignCellFirstWins(record, header, cell) ==
    LET value == CellValue(cell)
        field == FieldOf(header)
    IN  IF field = "ignored" THEN record
        ELSE IF IsSome(record[field]) THEN record
        ELSE IF field = "committed"
             THEN [record EXCEPT !.committed = ParseCommitted(value)]
        ELSE [record EXCEPT ![field] = value]
AssignCell(record, header, cell) ==
    LET value == CellValue(cell)
        field == FieldOf(header)
    IN  IF field = "ignored" THEN record
        ELSE IF field = "committed"
             THEN [record EXCEPT !.committed = ParseCommitted(value)]
        ELSE [record EXCEPT ![field] = value]

\* the loop over the cells of a row, from column col_idx on
RECURSIVE MapCells(_, _, _, _)
MapCells(record, headers, row, col_idx) ==
    IF col_idx >= Len(row) THEN record
    ELSE MapCells(IF col_idx \in DOMAIN headers
                  THEN AssignCell(record, headers[col_idx], row[col_idx + 1])
                  ELSE record,
                  headers, row, col_idx + 1)

MapRow(headers, row) == MapCells(ProjectRecord, headers, row, 0)

\* records.push(record) only with a project name
\* (a variant that keeps every row)
PushAlways(records, record) == Append(records, record)
PushRecord(records, record) ==
    IF IsSome(record.project_name) THEN Append(records, record) ELSE records

\* ------------------------------------------------------------------ derived fields

\* 10_000_000.0 and 1_000_000.0, in hundredths
HighThreshold == 10000000 * 100
MediumThreshold == 1000000 * 100

\* (variants: the arms in the other order; > for >=)
PrioritySwapped(committed) ==
    IF IsNone(committed) THEN None
    ELSE IF F64Ge(Unwrap(committed), MediumThreshold) THEN Some("Medium")
    ELSE IF F64Ge(Unwrap(committed), HighThreshold) THEN Some("High")
    ELSE Some("Low")
PriorityStrict(committed) ==
    IF IsNone(committed) THEN None
    ELSE IF F64Ge(Unwrap(committed), HighThreshold + 1) THEN Some("High")
    ELSE IF F64Ge(Unwrap(committed), MediumThreshold + 1) THEN Some("Medium")
    ELSE Some("Low")
Priority(committed) ==
    IF IsNone(committed) THEN None
    ELSE IF F64Ge(Unwrap(committed), HighThreshold) THEN Some("High")
    ELSE IF F64Ge(Unwrap(committed), MediumThreshold) THEN Some("Medium")
    ELSE Some("Low")

\* (a variant that looks for "planned" first)
StatusPlannedFirst(project_type) ==
    IF IsSome(project_type) /\ Contains(ToLowercase(Unwrap(project_type)), <<"p", "l", "a", "n", "n", "e", "d">>)
    THEN Some("Planning")
    ELSE IF IsSome(project_type) /\ Contains(ToLowercase(Unwrap(project_type)), <<"a", "c", "t", "i", "v", "e">>)
    THEN Some("Active")
    ELSE IF IsSome(project_type) /\ Contains(ToLowercase(Unwrap(project_type)), <<"c", "o", "m", "p", "l", "e", "t", "e", "d">>)
    THEN Some("Completed")
    ELSE Some("Active")
Status(project_type) ==
    IF IsSome(project_type) /\ Contains(ToLowercase(Unwrap(project_type)), <<"a", "c", "t", "i", "v", "e">>)
    THEN Some("Active")
    ELSE IF IsSome(project_type) /\ Contains(ToLowercase(Unwrap(project_type)), <<"p", "l", "a", "n", "n", "e", "d">>)
    THEN Some("Planning")
    ELSE IF IsSome(project_type) /\ Contains(ToLowercase(Unwrap(project_type)), <<"c", "o", "m", "p", "l", "e", "t", "e", "d">>)
    THEN Some("Completed")
    ELSE Some("Active")

\* one labelled part per present field
Part(label, field) == IF IsSome(field) THEN << label \o Unwrap(field) >> ELSE << >>

\* (a variant with the region before the department)
DescriptionPartsRegionFirst(record) ==
    Part(<< >>, record.project_description)
    \o Part(<<"R", "e", "g", "i", "o", "n", ":", " ">>, record.region)
    \o Part(<<"D", "e", "p", "a", "r", "t", "m", "e", "n", "t", ":", " ">>, record.department)
    \o Part(<<"C", "o", "u", "n", "t", "r", "y", ":", " ">>, record.country)
    \o Part(<<"F", "r", "a", "m", "e", "w", "o", "r", "k", ":", " ">>, record.framework)
    \o Part(<<"N", "A", "I", "C", "S", " ", "S", "e", "c", "t", "o", "r", ":", " ">>, record.naics_sector)
    \o Part(<<"P", "r", "o", "f", "i", "l", "e", " ", "U", "R", "L", ":", " ">>, record.project_profile_url)
DescriptionParts(record) ==
    Part(<< >>, record.project_description)
    \o Part(<<"D", "e", "p", "a", "r", "t", "m", "e", "n", "t", ":", " ">>, record.department)
    \o Part(<<"R", "e", "g", "i", "o", "n", ":", " ">>, record.region)
    \o Part(<<"C", "o", "u", "n", "t", "r", "y", ":", " ">>, record.country)
    \o Part(<<"F", "r", "a", "m", "e", "w", "o", "r", "k", ":", " ">>, record.framework)
    \o Part(<<"N", "A", "I", "C", "S", " ", "S", "e", "c", "t", "o", "r", ":", " ">>, record.naics_sector)
    \o Part(<<"P", "r", "o", "f", "i", "l", "e", " ", "U", "R", "L", ":", " ">>, record.project_profile_url)

\* [String]::join
RECURSIVE Join(_, _)
Join(parts, sep) ==
    IF parts = << >> THEN << >>
    ELSE IF Len(parts) = 1 THEN parts[1]
    ELSE parts[1] \o sep \o Join(Tail(parts), sep)

Description(record) ==
    IF DescriptionParts(record) = << >> THEN None
    ELSE Some(Join(DescriptionParts(record), <<"\n", "\n">>))

\* the row bound to the INSERT INTO projects statement; id stands for the
\* fresh Uuid::new_v4() of the call, now for its one reading of Utc::now()
\* (a variant that stamps the modification a moment later)
ProjectRowModifiedLater(record, id, now) ==
    [id |-> id,
     name |-> record.project_name,
     description |-> Description(record),
     status |-> Status(record.project_type),
     priority |-> Priority(record.committed),
     date_entered |-> now,
     date_modified |-> now + 1,
     created_by |-> "excel-import",
     modified_user_id |-> "excel-import"]
ProjectRow(record, id, now) ==
    [id |-> id,
     name |-> record.project_name,
     description |-> Description(record),
     status |-> Status(record.project_type),
     priority |-> Priority(record.committed),
     date_entered |-> now,
     date_modified |-> now,
     created_by |-> "excel-import",
     modified_user_id |-> "excel-import"]

\* ------------------------------------------------------------------ state

VARIABLES
    req,             \* the ImportRequest: the workbook at file_path, sheet_name
    pc,              \* the handler's position
    sheet_name,      \* read_excel_file: the name of the sheet to read
    range,           \* read_excel_file: the rows of that sheet
    headers,         \* read_excel_file: column index -> header text
    rows_done,       \* read_excel_file: rows of range.rows() consumed
    records,         \* the records read
    read_error,      \* the Err of read_excel_file, if any
    index,           \* import_excel_data: position of the loop over records
    inserted_count,
    total_records,
    errors,
    projects,        \* the projects table of the store
    attempts,        \* the calls of insert_project_record made: record, outcome
    clock,           \* the last reading of Utc::now()
    response,        \* the HttpResponse returned, if any
    query_req,       \* the QueryRequest: its query
    qpc,             \* db_execute_query: the handler's position
    executed,        \* the queries the store was asked to run
    fetched,         \* execute_safe_query: the rows fetch_all returned
    results,         \* execute_safe_query: the row maps pushed so far
    query_response,  \* the HttpResponse of db_execute_query, if any
    tasks,           \* concurrent requests: the local state of each
    held,            \* the requests that hold a connection of the pool
    table,           \* the rows concurrent imports have written
    fetch_url,       \* the FetchCsvRequest: its url
    fpc,             \* fetch_csv: the handler's position
    outbound,        \* the URLs reqwest::get was called with
    fetch_response,  \* the HttpResponse of fetch_csv, if any
    env_req,         \* the SaveEnvConfigRequest
    env_file,        \* the text of the file .env, if there is one
    environ,         \* the environment variables of the process
    saves,           \* the save_env_config requests handled
    env_response     \* the HttpResponse of the last of them, if any

vars == <<req, pc, sheet_name, range, headers, rows_done, records, read_error,
          index, inserted_count, total_records, errors, projects, attempts,
          clock, response, query_req, qpc, executed, fetched, results,
          query_response, tasks, held, table, fetch_url, fpc, outbound,
          fetch_response, env_req, env_file, environ, saves, env_response>>

read_vars == <<sheet_name, range, headers, rows_done, records, read_error>>
loop_vars == <<index, inserted_count, total_records, errors, projects,
               attempts, clock>>
query_vars == <<query_req, qpc, executed, fetched, results, query_response>>
pool_vars == <<tasks, held, table>>
fetch_vars == <<fetch_url, fpc, outbound, fetch_response>>
env_vars == <<env_req, env_file, environ, saves, env_response>>
aux_vars == <<pool_vars, fetch_vars, env_vars>>

\* no concurrent requests
PoolIdle == tasks = << >> /\ held = {} /\ table = {}
\* fetch_csv has no request
FetchIdle ==
    /\ fetch_url = << >>
    /\ fpc = "idle"
    /\ outbound = << >>
    /\ fetch_response = None
\* save_env_config has no request
EnvIdle ==
    /\ env_req = << >>
    /\ env_file = None
    /\ environ = << >>
    /\ saves = 0
    /\ env_response = None
AuxIdle == PoolIdle /\ FetchIdle /\ EnvIdle

\* sequences over S of length at most n
SeqsUpTo(S, n) == UNION {[1..k -> S] : k \in 0..n}

\* a sheet: its name and the rows of its used range, the header row first
Sheet(name, first_row, data_rows) ==
    [name |-> name, rows |-> <<first_row>> \o data_rows]

\* a file that open_workbook rejects
Unreadable == [readable |-> FALSE, sheets |-> << >>]
Workbook(sheets) == [readable |-> TRUE, sheets |-> sheets]

\* sqlx errors an INSERT can end with
DbErrors == {"constraint violation", "connection closed"}

\* a row the table holds before the request
ExistingRow ==
    [id |-> 0, name |-> Some(<<"E", "x", "i", "s", "t", "i", "n", "g">>), description |-> None,
     status |-> Some("Active"), priority |-> None, date_entered |-> 0,
     date_modified |-> 0, created_by |-> "1", modified_user_id |-> "1"]

\* ------------------------------------------------------------------ read_excel_file

\* open_workbook(file_path)?
OpenWorkbook ==
    /\ pc = "open"
    /\ IF req.file.readable
       THEN /\ pc' = "sheet_name"
            /\ UNCHANGED read_error
       ELSE /\ pc' = "read_failed"
            /\ read_error' = Some("cannot open workbook")
    /\ UNCHANGED <<aux_vars, query_vars, req, sheet_name, range, headers, rows_done, records,
                   loop_vars, response>>

\* the name of the sheet to read
\* (a variant that ignores the selector)
SheetNameFirstAlways(selector, sheets) ==
    IF sheets # << >> THEN sheets[1].name ELSE "Sheet1"
SheetNameOf(selector, sheets) ==
    IF IsSome(selector) THEN Unwrap(selector)
    ELSE IF sheets # << >> THEN sheets[1].name
    ELSE "Sheet1"

SelectSheet ==
    /\ pc = "sheet_name"
    /\ sheet_name' = SheetNameOf(req.sheet_name, req.file.sheets)
    /\ pc' = "range"
    /\ UNCHANGED <<aux_vars, query_vars, req, range, headers, rows_done, records, read_error,
                   loop_vars, response>>

\* workbook.worksheet_range(&sheet_name).map_err(..)?
WorksheetRange ==
    /\ pc = "range"
    /\ LET found == {i \in 1..Len(req.file.sheets) :
                        req.file.sheets[i].name = sheet_name}
       IN  IF found # {}
           THEN /\ range' = req.file.sheets[CHOOSE i \in found :
                                               \A j \in found : i <= j].rows
                /\ pc' = "headers"
                /\ UNCHANGED read_error
           ELSE /\ read_error' = Some("Error reading sheet")
                /\ pc' = "read_failed"
                /\ UNCHANGED range
    /\ UNCHANGED <<aux_vars, query_vars, req, sheet_name, headers, rows_done, records, loop_vars,
                   response>>

\* the header row: range.rows().next()
ReadHeaders ==
    /\ pc = "headers"
    /\ headers' = IF range # << >> THEN HeadersOf(range[1]) ELSE << >>
    /\ records' = << >>
    /\ rows_done' = 1
    /\ pc' = "rows"
    /\ UNCHANGED <<aux_vars, query_vars, req, sheet_name, range, read_error, loop_vars, response>>

\* one data row: range.rows().skip(1)
ReadRow ==
    /\ pc = "rows"
    /\ rows_done < Len(range)
    /\ records' = PushRecord(records, MapRow(headers, range[rows_done + 1]))
    /\ rows_done' = rows_done + 1
    /\ UNCHANGED <<aux_vars, query_vars, req, pc, sheet_name, range, headers, read_error, loop_vars,
                   response>>

\* Ok(records)
ReadReturn ==
    /\ pc = "rows"
    /\ rows_done >= Len(range)
    /\ pc' = "read_ok"
    /\ UNCHANGED <<aux_vars, query_vars, req, read_vars, loop_vars, response>>

\* ------------------------------------------------------------------ import_excel_data

\* Err(e) => return BadRequest
\* (a variant that goes on to the loop)
ImportReadFailedContinues ==
    /\ pc = "read_failed"
    /\ pc' = "read_ok"
    /\ UNCHANGED <<aux_vars, query_vars, req, read_vars, loop_vars, response>>
ImportReadFailed ==
    /\ pc = "read_failed"
    /\ response' = Some([status |-> 400,
                         success |-> FALSE,
                         message |-> <<"Failed to read Excel file",
                                       Unwrap(read_error)>>,
                         records_processed |-> None,
                         records_inserted |-> None,
                         errors |-> << [row |-> None,
                                        error |-> Unwrap(read_error)] >>])
    /\ pc' = "done"
    /\ UNCHANGED <<aux_vars, query_vars, req, read_vars, loop_vars>>

ImportStart ==
    /\ pc = "read_ok"
    /\ inserted_count' = 0
    /\ total_records' = Len(records)
    /\ index' = 0
    /\ pc' = "loop"
    /\ UNCHANGED <<aux_vars, query_vars, req, read_vars, errors, projects, attempts, clock, response>>

\* format!("Row {}: {}", index + 1, e)
\* (a variant with the 0-based index)
RowErrorZeroBased(i, e) == [row |-> Some(i), error |-> e]
RowError(i, e) == [row |-> Some(i + 1), error |-> e]

\* insert_project_record returns Ok
\* (a variant that does not count the row)
InsertOkUncounted ==
    /\ pc = "loop"
    /\ index < Len(records)
    /\ \E now \in {clock, clock + 1} :
         /\ clock' = now
         /\ projects' = Append(projects,
                               ProjectRow(records[index + 1], index + 1, now))
    /\ attempts' = Append(attempts, [index |-> index, ok |-> TRUE])
    /\ index' = index + 1
    /\ UNCHANGED <<aux_vars, query_vars, req, pc, read_vars, total_records, errors, inserted_count,
                   response>>
InsertOk ==
    /\ pc = "loop"
    /\ index < Len(records)
    /\ \E now \in {clock, clock + 1} :
         /\ clock' = now
         /\ projects' = Append(projects,
                               ProjectRow(records[index + 1], index + 1, now))
    /\ inserted_count' = inserted_count + 1
    /\ attempts' = Append(attempts, [index |-> index, ok |-> TRUE])
    /\ index' = index + 1
    /\ UNCHANGED <<aux_vars, query_vars, req, pc, read_vars, total_records, errors, response>>

\* insert_project_record returns Err(e)
\* (a variant that leaves the loop)
InsertErrAborts ==
    /\ pc = "loop"
    /\ index < Len(records)
    /\ \E e \in DbErrors : errors' = Append(errors, RowError(index, e))
    /\ attempts' = Append(attempts, [index |-> index, ok |-> FALSE])
    /\ index' = Len(records)
    /\ UNCHANGED <<aux_vars, query_vars, req, pc, read_vars, total_records, inserted_count,
                   projects, clock, response>>
InsertErr ==
    /\ pc = "loop"
    /\ index < Len(records)
    /\ \E e \in DbErrors : errors' = Append(errors, RowError(index, e))
    /\ attempts' = Append(attempts, [index |-> index, ok |-> FALSE])
    /\ index' = index + 1
    /\ UNCHANGED <<aux_vars, query_vars, req, pc, read_vars, total_records, inserted_count,
                   projects, clock, response>>

\* success: errors.is_empty() || inserted_count > 0
\* (a variant that fails on any error)
SuccessOnlyWithoutErrors(errs, inserted) == errs = << >>
\* (a variant that asks for an inserted row)
SuccessOnlyWithInserts(errs, inserted) == inserted > 0
Success(errs, inserted) == errs = << >> \/ inserted > 0

\* (a variant that answers before the loop has ended)
ImportRespondEarly ==
    /\ pc = "loop"
    /\ response' = Some([status |-> 200,
                         success |-> Success(errors, inserted_count),
                         message |-> IF errors = << >>
                                     THEN <<"Successfully imported",
                                            inserted_count>>
                                     ELSE <<"Imported", inserted_count,
                                            total_records, Len(errors)>>,
                         records_processed |-> Some(total_records),
                         records_inserted |-> Some(inserted_count),
                         errors |-> errors])
    /\ pc' = "done"
    /\ UNCHANGED <<aux_vars, query_vars, req, read_vars, loop_vars>>
ImportRespond ==
    /\ pc = "loop"
    /\ index >= Len(records)
    /\ response' = Some([status |-> 200,
                         success |-> Success(errors, inserted_count),
                         message |-> IF errors = << >>
                                     THEN <<"Successfully imported",
                                            inserted_count>>
                                     ELSE <<"Imported", inserted_count,
                                            total_records, Len(errors)>>,
                         records_processed |-> Some(total_records),
                         records_inserted |-> Some(inserted_count),
                         errors |-> errors])
    /\ pc' = "done"
    /\ UNCHANGED <<aux_vars, query_vars, req, read_vars, loop_vars>>

\* ------------------------------------------------------------------ requests

\* sheets of the import requests: a name column and an amount column
ImportHeader == <<DataString(<<"P", "r", "o", "j", "e", "c", "t", " ", "N", "a", "m", "e">>), DataString(<<"C", "o", "m", "m", "i", "t", "t", "e", "d">>)>>
ImportRows ==
    {<<DataString(<<"A", "l", "p", "h", "a">>), DataFloat(Amount(5000000, 0))>>,
     <<DataString(<<"B", "e", "t", "a">>), DataEmpty>>,
     <<DataEmpty, DataInt(7)>>}
BatchRow == <<DataString(<<"G", "a", "m", "m", "a">>), DataFloat(Amount(20000000, 0))>>
ImportWorkbooks ==
    {Unreadable}
    \cup {Workbook(<<Sheet("Sheet1", ImportHeader, rs)>>) :
            rs \in SeqsUpTo(ImportRows, MaxRows)}
    \cup {Workbook(<<Sheet("Sheet1", ImportHeader, [i \in 1..k |-> BatchRow])>>) :
            k \in 0..MaxBatch}
ImportSelectors == {None, Some("Sheet1"), Some("Missing")}

InitWith(requests) ==
    /\ req \in requests
    /\ pc = "open"
    /\ sheet_name = ""
    /\ range = << >>
    /\ headers = << >>
    /\ rows_done = 0
    /\ records = << >>
    /\ read_error = None
    /\ index = 0
    /\ inserted_count = 0
    /\ total_records = 0
    /\ errors = << >>
    /\ projects = <<ExistingRow>>
    /\ attempts = << >>
    /\ clock = 1
    /\ response = None
    /\ query_req = << >>
    /\ qpc = "idle"
    /\ executed = << >>
    /\ fetched = << >>
    /\ results = << >>
    /\ query_response = None
    /\ AuxIdle

ImportRequests == [file : ImportWorkbooks, sheet_name : ImportSelectors]

Init == InitWith(ImportRequests)

Read ==
    \/ OpenWorkbook
    \/ SelectSheet
    \/ WorksheetRange
    \/ ReadHeaders
    \/ ReadRow
    \/ ReadReturn

Next ==
    \/ Read
    \/ ImportReadFailed
    \/ ImportStart
    \/ InsertOk
    \/ InsertErr
    \/ ImportRespond

Spec == Init /\ [][Next]_vars

\* ------------------------------------------------------------------ import batch: claims

\* the rows the table holds beyond those it held before the request
Written == SubSeq(projects, 2, Len(projects))
\* the response of a batch that got past reading
Answered == pc = "done" /\ IsSome(response) /\ Unwrap(response).status = 200
\* how many entries of a sequence satisfy a test
Count(seq, Test(_)) == Cardinality({k \in 1..Len(seq) : Test(seq[k])})

\* C1: in every batch that got past reading, once the loop has ended
\* records_processed = records_inserted + number of error entries; every
\* record read is either written once and has no error entry, or has exactly
\* one error entry and is not written; the rows written number
\* records_inserted.  During the loop the same holds of the records handled
\* so far.
C1_Accounting ==
    /\ pc = "loop" =>
         /\ index = inserted_count + Len(errors)
         /\ Len(Written) = inserted_count
    /\ Answered =>
         LET r == Unwrap(response)
         IN  /\ r.records_processed = Some(Len(records))
             /\ Unwrap(r.records_processed)
                  = Unwrap(r.records_inserted) + Len(r.errors)
             /\ Len(Written) = Unwrap(r.records_inserted)
             /\ \A i \in 1..Len(records) :
                  Count(Written, LAMBDA w : w.id = i)
                    + Count(r.errors, LAMBDA e : e.row = Some(i)) = 1

C1_Witness ==
    /\ Answered
    /\ Unwrap(response).records_processed = Some(3)
    /\ Unwrap(response).records_inserted = Some(2)
    /\ Len(Unwrap(response).errors) = 1

\* C2: the success flag of a response is true exactly when at least one
\* record was inserted or the error list is empty; a batch with rows failing
\* and rows succeeding answers success with a non-empty error list; a batch
\* of n > 0 records that all fail answers success = false,
\* records_inserted = 0 and n errors.
C2_SuccessFlag ==
    pc = "done" =>
        LET r == Unwrap(response)
            failed == Count(attempts, LAMBDA a : ~a.ok)
        IN  /\ r.success <=> (Len(Written) > 0 \/ r.errors = << >>)
            /\ ~r.success <=> (r.errors # << >> /\ Len(Written) = 0)
            /\ (Len(Written) > 0 /\ failed > 0) =>
                 (r.success /\ r.errors # << >>)
            /\ (Len(records) > 0 /\ failed = Len(records) /\ Answered) =>
                 /\ ~r.success
                 /\ r.records_inserted = Some(0)
                 /\ Len(r.errors) = Len(records)

C2_Witness ==
    /\ Answered
    /\ Unwrap(response).success
    /\ Unwrap(response).errors # << >>
    /\ Len(Written) > 0

\* C3: the calls of insert_project_record are one per record, in input
\* order: after k steps of the loop the calls made are those of records
\* 0..k-1, whatever their outcomes, and the response is built only when
\* every record has had its call.
C3_OneAttemptEach ==
    /\ pc \in {"loop", "done"} =>
         /\ Len(attempts) = index
         /\ \A k \in 1..Len(attempts) : attempts[k].index = k - 1
    /\ Answered => Len(attempts) = Len(records)
    /\ pc \notin {"loop", "done"} => attempts = << >>

C3_Witness ==
    /\ Answered
    /\ Len(records) = 3
    /\ ~attempts[1].ok
    /\ Len(attempts) = 3
    /\ attempts[2].ok
    /\ ~attempts[3].ok

\* C4: the error list holds the 1-based indices of the failed records, one
\* entry each, in ascending order, and none of a record that was written.
C4_ErrorIndices ==
    pc \in {"loop", "done"} /\ IsNone(read_error) =>
        /\ \A i \in 1..Len(attempts) :
             ~attempts[i].ok <=> (\E k \in 1..Len(errors) : errors[k].row = Some(i))
        /\ \A k \in 1..Len(errors) :
             /\ IsSome(errors[k].row)
             /\ Unwrap(errors[k].row) \in 1..Len(records)
             /\ \A w \in 1..Len(Written) : Written[w].id # Unwrap(errors[k].row)
        /\ \A k \in 1..(Len(errors) - 1) :
             Unwrap(errors[k].row) < Unwrap(errors[k + 1].row)
        /\ Answered => Unwrap(response).errors = errors

\* five records, the second and the fourth failing
C4_Witness ==
    /\ Answered
    /\ Unwrap(response).records_processed = Some(5)
    /\ Unwrap(response).records_inserted = Some(3)
    /\ Len(Unwrap(response).errors) = 2
    /\ Unwrap(response).errors[1].row = Some(2)
    /\ Unwrap(response).errors[2].row = Some(4)
    /\ Unwrap(response).success

\* the request names a file that cannot be opened, or a sheet the workbook
\* does not hold
SourceUnreadable == ~req.file.readable
SheetNotFound ==
    /\ req.file.readable
    /\ \/ /\ IsSome(req.sheet_name)
          /\ \A i \in 1..Len(req.file.sheets) :
               req.file.sheets[i].name # Unwrap(req.sheet_name)
       \/ /\ IsNone(req.sheet_name)
          /\ req.file.sheets = << >>

\* C5: when reading the source fails, no insert is attempted, the table is
\* left as it was, and the response is one failure: 400, success = false,
\* records_processed and records_inserted absent, one error.
C5_ReadFailure ==
    (SourceUnreadable \/ SheetNotFound) =>
        /\ attempts = << >>
        /\ projects = <<ExistingRow>>
        /\ pc \notin {"read_ok", "loop"}
        /\ pc = "done" =>
             /\ IsSome(response)
             /\ Unwrap(response).status = 400
             /\ ~Unwrap(response).success
             /\ Unwrap(response).records_processed = None
             /\ Unwrap(response).records_inserted = None
             /\ Len(Unwrap(response).errors) = 1

C5_Witness ==
    /\ pc = "done"
    /\ SheetNotFound
    /\ Len(req.file.sheets[1].rows) > 2
    /\ Unwrap(response).status = 400

\* ------------------------------------------------------------------ reading: requests

\* header cells: spellings of two known headers, and unknown ones
HeaderCells ==
    {DataString(<<"P", "r", "o", "j", "e", "c", "t", " ", "N", "a", "m", "e">>), DataString(<<" ", "P", "R", "O", "J", "E", "C", "T", " ", "N", "A", "M", "E", " ">>),
     DataString(<<"p", "r", "o", "j", "e", "c", "t", " ", "n", "a", "m", "e">>), DataString(<<"\t", "P", "r", "o", "j", "e", "c", "t", " ", "n", "a", "m", "e">>),
     DataString(<<"P", "r", "o", "j", "e", "c", "t", " ", " ", "N", "a", "m", "e">>), DataString(<<"R", "e", "g", "i", "o", "n">>),
     DataString(<<" ", "r", "e", "g", "i", "o", "n">>), DataString(<<"N", "a", "m", "e">>), DataEmpty}
PlainCells ==
    {DataEmpty, DataString(<<" ", "a", "b", " ">>), DataString(<<" ", "\t">>),
     DataFloat(Amount(2, 50))}

\* sheets of any one or two header cells, with at most one data row
HeaderSheets ==
    UNION {{[name |-> "Sheet1", rows |-> <<h>> \o rs] :
              h \in [1..w -> HeaderCells],
              rs \in SeqsUpTo([1..w -> PlainCells], 1)} : w \in 1..2}

\* sheets of chosen header rows, with any data rows
ReadHeaderRows ==
    {<<DataString(<<"P", "r", "o", "j", "e", "c", "t", " ", "N", "a", "m", "e">>)>>,
     <<DataString(<<" ", "P", "R", "O", "J", "E", "C", "T", " ", "N", "A", "M", "E", " ">>), DataString(<<"R", "e", "g", "i", "o", "n">>)>>,
     <<DataString(<<"p", "r", "o", "j", "e", "c", "t", " ", "n", "a", "m", "e">>), DataString(<<"P", "r", "o", "j", "e", "c", "t", " ", "N", "a", "m", "e">>)>>,
     <<DataString(<<"R", "e", "g", "i", "o", "n">>), DataString(<<"C", "o", "m", "m", "i", "t", "t", "e", "d">>)>>,
     <<DataString(<<"N", "a", "m", "e">>), DataString(<<"p", "r", "o", "j", "e", "c", "t", " ", "n", "a", "m", "e">>)>>}
ReadCells == {DataEmpty, DataString(<<" ", " ">>), DataString(<<" ", "a", "b", " ">>)}
\* data rows: any cell in the first column, text or nothing in the others
ReadRows(w) ==
    {row \in [1..w -> ReadCells] :
        \A c \in 2..w : row[c] \in {DataEmpty, DataString(<<" ", "a", "b", " ">>)}}
RowSheets ==
    UNION {{[name |-> "Sheet1", rows |-> <<h>> \o rs] :
              rs \in SeqsUpTo(ReadRows(Len(h)), MaxRows)} :
           h \in ReadHeaderRows}

\* workbooks of several sheets, each sheet holding rows of its own
SheetNames == {"Sheet1", "Data", "Totals"}
SheetOf(name) ==
    CASE name = "Sheet1" ->
           Sheet(name, <<DataString(<<"P", "r", "o", "j", "e", "c", "t", " ", "N", "a", "m", "e">>)>>, <<<<DataString(<<"S">>)>>>>)
      [] name = "Data" ->
           Sheet(name, <<DataString(<<"P", "r", "o", "j", "e", "c", "t", " ", "N", "a", "m", "e">>)>>,
                 <<<<DataString(<<"D">>)>>, <<DataString(<<"E">>)>>>>)
      [] OTHER -> [name |-> name, rows |-> << >>]
SheetLists ==
    {s \in SeqsUpTo(SheetNames, MaxSheets) :
        \A i, j \in 1..Len(s) : i # j => s[i] # s[j]}
SheetWorkbooks ==
    {Workbook([i \in 1..Len(s) |-> SheetOf(s[i])]) : s \in SheetLists}

ReadRequests ==
    [file : {Workbook(<<s>>) : s \in HeaderSheets \cup RowSheets},
     sheet_name : {None, Some("Sheet1")}]
    \cup [file : SheetWorkbooks \cup {Unreadable},
          sheet_name : {None, Some("Missing")} \cup {Some(n) : n \in SheetNames}]

InitRead == InitWith(ReadRequests)

\* read_excel_file alone
SpecRead == InitRead /\ [][Read]_vars

\* ------------------------------------------------------------------ reading: claims

\* the sheets of the workbook that carry the name n, by position
SheetsNamed(n) ==
    {i \in 1..Len(req.file.sheets) : req.file.sheets[i].name = n}
\* read_excel_file has a range in hand
HasRange == pc \in {"headers", "rows", "read_ok"}

\* C6: with a selector that names a sheet, the rows read are those of that
\* sheet; with a selector that names no sheet the read fails and returns no
\* record; with no selector the rows read are those of the first sheet.
C6_SheetSelection ==
    req.file.readable =>
        /\ (IsSome(req.sheet_name) /\ SheetsNamed(Unwrap(req.sheet_name)) # {}) =>
             /\ pc # "read_failed"
             /\ HasRange =>
                  \E i \in SheetsNamed(Unwrap(req.sheet_name)) :
                      range = req.file.sheets[i].rows
        /\ (IsSome(req.sheet_name) /\ SheetsNamed(Unwrap(req.sheet_name)) = {}) =>
             /\ ~HasRange
             /\ records = << >>
             /\ pc = "read_failed" => IsSome(read_error)
        /\ (IsNone(req.sheet_name) /\ req.file.sheets # << >>) =>
             /\ pc # "read_failed"
             /\ HasRange => range = req.file.sheets[1].rows

\* the second sheet is asked for and read
C6_Witness ==
    /\ pc = "read_ok"
    /\ Len(req.file.sheets) = 2
    /\ req.sheet_name = Some(req.file.sheets[2].name)
    /\ range = req.file.sheets[2].rows
    /\ range # req.file.sheets[1].rows
    /\ Len(records) = 2

\* a header cell that spells "project name", in any case and with any
\* whitespace around it
IsNameHeader(cell) ==
    /\ cell.t = "String"
    /\ \E i, j \in 1..Len(cell.s) :
         /\ \A k \in 1..(i - 1) : IsWhitespace(cell.s[k])
         /\ \A k \in (j + 1)..Len(cell.s) : IsWhitespace(cell.s[k])
         /\ ToLowercase(SubSeq(cell.s, i, j)) = <<"p", "r", "o", "j", "e", "c", "t", " ", "n", "a", "m", "e">>
\* a data cell without text: empty, or whitespace only
IsBlank(cell) ==
    \/ cell.t = "Empty"
    \/ cell.t = "String" /\ \A k \in 1..Len(cell.s) : IsWhitespace(cell.s[k])
\* the project-name columns of the header row (the last one gives the name)
NameColumns(first_row) == {c \in 1..Len(first_row) : IsNameHeader(first_row[c])}
LastOf(S) == CHOOSE c \in S : \A d \in S : d <= c
\* the data row has a project name
HasName(first_row, row) ==
    /\ NameColumns(first_row) # {}
    /\ ~IsBlank(row[LastOf(NameColumns(first_row))])

\* C7: the records read so far are the data rows read so far that have a
\* project name, in sheet order, each with a present and non-empty project
\* name; a row without one leaves no record and no error.
C7_PrimaryFieldFilter ==
    pc \in {"rows", "read_ok"} /\ range # << >> =>
        LET rows == SubSeq(range, 2, rows_done)
            kept == SelectSeq(rows, LAMBDA row : HasName(range[1], row))
        IN  /\ Len(records) = Len(kept)
            /\ \A i \in 1..Len(records) :
                 /\ IsSome(records[i].project_name)
                 /\ Unwrap(records[i].project_name) # << >>
                 /\ records[i] = MapRow(HeadersOf(range[1]), kept[i])
            /\ read_error = None

\* of three data rows the second has no name
C7_Witness ==
    /\ pc = "read_ok"
    /\ Len(range) = 4
    /\ HasName(range[1], range[2])
    /\ ~HasName(range[1], range[3])
    /\ HasName(range[1], range[4])
    /\ Len(records) = 2

SameLetter(a, b) ==
    \/ a = b
    \/ \E k \in 1..Len(UpperChars) : {a, b} = {UpperChars[k], LowerChars[k]}
\* the text of s between its leading and trailing whitespace
Core(s) ==
    IF \A k \in 1..Len(s) : IsWhitespace(s[k]) THEN << >>
    ELSE LET i == CHOOSE i \in 1..Len(s) :
                    ~IsWhitespace(s[i]) /\ \A k \in 1..(i - 1) : IsWhitespace(s[k])
             j == CHOOSE j \in 1..Len(s) :
                    ~IsWhitespace(s[j]) /\ \A k \in (j + 1)..Len(s) : IsWhitespace(s[k])
         IN  SubSeq(s, i, j)
\* two texts that differ at most in letter case and in the whitespace around
DiffersOnlyInCaseAndPadding(s, u) ==
    /\ Len(Core(s)) = Len(Core(u))
    /\ \A k \in 1..Len(Core(s)) : SameLetter(Core(s)[k], Core(u)[k])

\* C8: two header cells whose texts differ only in letter case or in
\* leading and trailing whitespace get the same header text, and so name the
\* same field or are both ignored.
C8_HeaderInsensitive ==
    pc \in {"rows", "read_ok"} /\ range # << >> =>
        \A c, d \in 1..Len(range[1]) :
            DiffersOnlyInCaseAndPadding(CellToString(range[1][c]),
                                        CellToString(range[1][d]))
            => /\ headers[c - 1] = headers[d - 1]
               /\ FieldOf(headers[c - 1]) = FieldOf(headers[d - 1])

\* two spellings of the project name column, both filled from a data row
C8_Witness ==
    /\ pc = "read_ok"
    /\ Len(range) = 2
    /\ Len(range[1]) = 2
    /\ range[1][1] # range[1][2]
    /\ CellToString(range[1][1]) # ToLowercase(CellToString(range[1][1]))
    /\ CellToString(range[1][2]) # Trim(CellToString(range[1][2]))
    /\ DiffersOnlyInCaseAndPadding(CellToString(range[1][1]),
                                   CellToString(range[1][2]))
    /\ FieldOf(headers[0]) = "project_name"
    /\ FieldOf(headers[1]) = "project_name"
    /\ Len(records) = 1

\* ------------------------------------------------------------------ priority: requests

\* cells of the committed column: amounts around the thresholds, as numbers
\* and as text, and cells that hold no number
CommittedCells ==
    {DataFloat(Amount(9999999, 99)), DataFloat(Amount(10000000, 0)),
     DataFloat(Amount(10000000, 1)), DataFloat(Amount(999999, 99)),
     DataFloat(Amount(1000000, 0)), DataFloat(Amount(1000000, 1)),
     DataFloat(Amount(0, 0)), DataFloat(Fin(0 - 550)),
     DataFloat(Fin(0 - 2000000000)), DataFloat(Amount(2, 50)),
     DataInt(7), DataInt(20000000), DataInt(1000000), DataInt(0 - 3),
     DataString(<<"9", "9", "9", "9", "9", "9", "9", ".", "9", "9">>), DataString(<<" ", "1", "0", "0", "0", "0", "0", "0", "0", ".", "0", "0", " ">>),
     DataString(<<"9", "9", "9", "9", "9", "9", ".", "9", "9">>), DataString(<<"1", "0", "0", "0", "0", "0", "0">>), DataString(<<"+", "5", ".", "5">>),
     DataString(<<"-", "1", "2">>), DataString(<<".", "5">>), DataString(<<"5", ".">>),
     DataString(<<"N", "a", "N">>), DataString(<<"i", "n", "f">>), DataString(<<"-", "I", "n", "f", "i", "n", "i", "t", "y">>),
     DataString(<<"1", ",", "0", "0", "0", ",", "0", "0", "0">>), DataString(<<"n", "/", "a">>), DataString(<<"$", "5">>),
     DataString(<<" ">>), DataString(<<".">>), DataString(<<"-">>),
     DataEmpty, DataBool(TRUE), DataError(<<"#", "D", "I", "V", "/", "0", "!">>)}
PriorityWorkbooks ==
    {Workbook(<<Sheet("Sheet1", ImportHeader, <<<<n, c>>>>)>>) :
        n \in {DataString(<<"A", "l", "p", "h", "a">>), DataInt(9)}, c \in CommittedCells}
PriorityRequests == [file : PriorityWorkbooks, sheet_name : ImportSelectors]

InitPriority == InitWith(PriorityRequests)

\* import_excel_data on one-record sheets of every committed cell
SpecPriority == InitPriority /\ [][Next]_vars

\* ------------------------------------------------------------------ priority: claims

\* the record a written row was made from
RecordOf(w) == records[w.id]
\* the committed amount of a record is the finite amount of units and
\* hundredths
IsAmount(committed, units, hundredths) ==
    committed = Some(Amount(units, hundredths))

\* C9: the priority of every row written is decided by the committed amount
\* of its record alone: at least 10,000,000 gives High; at least 1,000,000
\* and less than 10,000,000 gives Medium; less than 1,000,000, zero and
\* negative amounts included, gives Low; no amount gives no priority.
C9_PriorityThresholds ==
    \A k \in 1..Len(Written) :
        LET committed == RecordOf(Written[k]).committed
            priority == Written[k].priority
            finite == IsSome(committed) /\ Unwrap(committed).k = "fin"
        IN  /\ IsNone(committed) => priority = None
            /\ IsSome(committed) => priority \in {Some("High"), Some("Medium"), Some("Low")}
            /\ (finite /\ Unwrap(committed).c >= 10000000 * 100) =>
                 priority = Some("High")
            /\ (finite /\ Unwrap(committed).c >= 1000000 * 100
                       /\ Unwrap(committed).c < 10000000 * 100) =>
                 priority = Some("Medium")
            /\ (finite /\ Unwrap(committed).c < 1000000 * 100) =>
                 priority = Some("Low")
            /\ committed = Some(PosInf) => priority = Some("High")
            /\ committed = Some(NegInf) => priority = Some("Low")

\* a negative amount is written with priority Low
C9_Witness ==
    /\ Answered
    /\ Len(Written) = 1
    /\ IsSome(RecordOf(Written[1]).committed)
    /\ Unwrap(RecordOf(Written[1]).committed).k = "fin"
    /\ Unwrap(RecordOf(Written[1]).committed).c < 0
    /\ Written[1].priority = Some("Low")

\* the priorities at the boundaries, but for that of 9,999,999.99
BoundaryPriorities(w) ==
    /\ IsAmount(RecordOf(w).committed, 10000000, 0) => w.priority = Some("High")
    /\ IsAmount(RecordOf(w).committed, 999999, 99) => w.priority = Some("Low")
    /\ IsAmount(RecordOf(w).committed, 1000000, 0) => w.priority = Some("Medium")
    /\ RecordOf(w).committed = None => w.priority = None

\* C10, as stated: 9,999,999.99 gives Low; 10,000,000.00 gives High;
\* 999,999.99 gives Low; 1,000,000.00 gives Medium; no amount gives no
\* priority.
C10_AsStated ==
    \A k \in 1..Len(Written) :
        /\ BoundaryPriorities(Written[k])
        /\ IsAmount(RecordOf(Written[k]).committed, 9999999, 99) =>
             Written[k].priority = Some("Low")

\* C10, amended: 9,999,999.99 gives Medium; 10,000,000.00 gives High;
\* 999,999.99 gives Low; 1,000,000.00 gives Medium; no amount gives no
\* priority.
C10_BoundaryPriorities ==
    \A k \in 1..Len(Written) :
        /\ BoundaryPriorities(Written[k])
        /\ IsAmount(RecordOf(Written[k]).committed, 9999999, 99) =>
             Written[k].priority = Some("Medium")

\* 9,999,999.99 is written with priority Medium
C10_Witness ==
    /\ Answered
    /\ Len(Written) = 1
    /\ IsAmount(RecordOf(Written[1]).committed, 9999999, 99)
    /\ Written[1].priority = Some("Medium")

\* ------------------------------------------------------------------ derived fields: requests

\* cells of the project type column
TypeCells ==
    {DataString(<<"A", "c", "t", "i", "v", "e", " ", "P", "h", "a", "s", "e", " ", "2">>), DataString(<<"P", "l", "a", "n", "n", "e", "d", " ", "f", "o", "r", " ", "Q", "3">>),
     DataString(<<"c", "o", "m", "p", "l", "e", "t", "e", "d", " ", "e", "a", "r", "l", "y">>), DataString(<<"I", "N", "A", "C", "T", "I", "V", "E">>),
     DataString(<<"P", "l", "a", "n", "n", "e", "d", ",", " ", "t", "h", "e", "n", " ", "a", "c", "t", "i", "v", "e">>), DataString(<<"C", "o", "m", "p", "l", "e", "t", "e", "d", " ", "(", "w", "a", "s", " ", "p", "l", "a", "n", "n", "e", "d", ")">>),
     DataString(<<"R", "e", "a", "c", "t", "i", "v", "a", "t", "e", "d", " ", "a", "n", "d", " ", "C", "O", "M", "P", "L", "E", "T", "E", "D">>), DataString(<<"P", "L", "A", "N", "N", "E", "D">>),
     DataString(<<"P", "l", "a", "n", "n", "i", "n", "g">>), DataString(<<"C", "o", "m", "p", "l", "e", "t", "e">>), DataString(<<"O", "n", " ", "h", "o", "l", "d">>),
     DataString(<<"A", "c", "t", "i", "v", "e", "P", "l", "a", "n", "n", "e", "d", "C", "o", "m", "p", "l", "e", "t", "e", "d">>), DataString(<<"c", "o", "m", "p", "l", "e", "t", "e", "d", "p", "l", "a", "n", "n", "e", "d", "a", "c", "t", "i", "v", "e">>),
     DataEmpty, DataString(<<" ">>), DataInt(3), DataBool(TRUE)}
StatusWorkbooks ==
    {Workbook(<<Sheet("Sheet1",
                      <<DataString(<<"P", "r", "o", "j", "e", "c", "t", " ", "N", "a", "m", "e">>), DataString(<<"P", "r", "o", "j", "e", "c", "t", " ", "T", "y", "p", "e">>)>>,
                      <<<<DataString(<<"A", "l", "p", "h", "a">>), c>>>>)>>) : c \in TypeCells}

\* a sheet of all twelve columns; the seven fields of the description are
\* each present or not, the four other optional fields all present or not
DerivedHeader ==
    <<DataString(<<"P", "r", "o", "j", "e", "c", "t", " ", "N", "a", "m", "e">>), DataString(<<"P", "r", "o", "j", "e", "c", "t", " ", "D", "e", "s", "c", "r", "i", "p", "t", "i", "o", "n">>),
      DataString(<<"D", "e", "p", "a", "r", "t", "m", "e", "n", "t">>), DataString(<<"R", "e", "g", "i", "o", "n">>), DataString(<<"C", "o", "u", "n", "t", "r", "y">>),
      DataString(<<"F", "r", "a", "m", "e", "w", "o", "r", "k">>), DataString(<<"N", "A", "I", "C", "S", " ", "S", "e", "c", "t", "o", "r">>),
      DataString(<<"P", "r", "o", "j", "e", "c", "t", " ", "P", "r", "o", "f", "i", "l", "e", " ", "U", "R", "L">>), DataString(<<"F", "i", "s", "c", "a", "l", " ", "Y", "e", "a", "r">>),
      DataString(<<"P", "r", "o", "j", "e", "c", "t", " ", "N", "u", "m", "b", "e", "r">>), DataString(<<"P", "r", "o", "j", "e", "c", "t", " ", "T", "y", "p", "e">>),
      DataString(<<"C", "o", "m", "m", "i", "t", "t", "e", "d">>)>>
DerivedTexts ==
    <<DataString(<<"A", "l", "p", "h", "a">>), DataString(<<"W", "e", "l", "l", "s">>), DataString(<<"W", "a", "t", "e", "r">>),
      DataString(<<"E", "a", "s", "t">>), DataString(<<"K", "e", "n", "y", "a">>), DataString(<<"G", "r", "a", "n", "t">>),
      DataString(<<"2", "2">>), DataString(<<"x", ".", "o", "r", "g", "/", "a">>), DataString(<<"2", "0", "2", "4">>),
      DataString(<<"P", "-", "1">>), DataString(<<"P", "l", "a", "n", "n", "e", "d">>), DataInt(5)>>
DerivedRows ==
    {[c \in 1..12 |-> IF c = 1 \/ (c \in 2..8 /\ c \in present)
                         \/ (c > 8 /\ others)
                      THEN DerivedTexts[c] ELSE DataEmpty] :
        present \in SUBSET (2..8), others \in BOOLEAN}
DescriptionWorkbooks ==
    {Workbook(<<Sheet("Sheet1", DerivedHeader, <<row>>)>>) : row \in DerivedRows}

DerivedRequests ==
    [file : StatusWorkbooks \cup DescriptionWorkbooks \cup {Unreadable},
     sheet_name : {None}]

InitDerived == InitWith(DerivedRequests)

\* import_excel_data on one-record sheets of every project type cell and of
\* every choice of present fields
SpecDerived == InitDerived /\ [][Next]_vars

\* ------------------------------------------------------------------ derived fields: claims

\* the text holds the word somewhere, in any letter case
HoldsWord(text, word) ==
    \E i \in 0..(Len(text) - Len(word)) :
        \A k \in 1..Len(word) : SameLetter(text[i + k], word[k])
TypeHolds(record, word) ==
    IsSome(record.project_type) /\ HoldsWord(Unwrap(record.project_type), word)

\* C11: the status of every row written follows the project type of its
\* record: "active" in it, in any case, gives Active; otherwise "planned"
\* gives Planning; otherwise "completed" gives Completed; otherwise, and with
\* no project type, Active.  The status is never absent.
C11_StatusPrecedence ==
    \A k \in 1..Len(Written) :
        LET r == RecordOf(Written[k])
            status == Written[k].status
        IN  /\ status \in {Some("Active"), Some("Planning"), Some("Completed")}
            /\ TypeHolds(r, <<"a", "c", "t", "i", "v", "e">>) => status = Some("Active")
            /\ (~TypeHolds(r, <<"a", "c", "t", "i", "v", "e">>) /\ TypeHolds(r, <<"p", "l", "a", "n", "n", "e", "d">>)) =>
                 status = Some("Planning")
            /\ (~TypeHolds(r, <<"a", "c", "t", "i", "v", "e">>) /\ ~TypeHolds(r, <<"p", "l", "a", "n", "n", "e", "d">>)
                  /\ TypeHolds(r, <<"c", "o", "m", "p", "l", "e", "t", "e", "d">>)) => status = Some("Completed")
            /\ (~TypeHolds(r, <<"a", "c", "t", "i", "v", "e">>) /\ ~TypeHolds(r, <<"p", "l", "a", "n", "n", "e", "d">>)
                  /\ ~TypeHolds(r, <<"c", "o", "m", "p", "l", "e", "t", "e", "d">>)) => status = Some("Active")

\* a type that holds "planned" before "active" is written as Active
C11_Witness ==
    /\ Answered
    /\ Len(Written) = 1
    /\ TypeHolds(RecordOf(Written[1]), <<"p", "l", "a", "n", "n", "e", "d">>)
    /\ TypeHolds(RecordOf(Written[1]), <<"a", "c", "t", "i", "v", "e">>)
    /\ ~TypeHolds(RecordOf(Written[1]), <<"c", "o", "m", "p", "l", "e", "t", "e", "d">>)
    /\ Unwrap(RecordOf(Written[1]).project_type)[1] = "P"
    /\ Written[1].status = Some("Active")

\* the six labelled fields of the description, in order, as <<label, field>>
LabelledFields(r) ==
    << <<<<"D", "e", "p", "a", "r", "t", "m", "e", "n", "t", ":", " ">>, r.department>>,
       <<<<"R", "e", "g", "i", "o", "n", ":", " ">>, r.region>>,
       <<<<"C", "o", "u", "n", "t", "r", "y", ":", " ">>, r.country>>,
       <<<<"F", "r", "a", "m", "e", "w", "o", "r", "k", ":", " ">>, r.framework>>,
       <<<<"N", "A", "I", "C", "S", " ", "S", "e", "c", "t", "o", "r", ":", " ">>, r.naics_sector>>,
       <<<<"P", "r", "o", "f", "i", "l", "e", " ", "U", "R", "L", ":", " ">>, r.project_profile_url>> >>
\* the lines of those that are present, each "Label: value"
LabelledLines(r) ==
    LET present == SelectSeq(LabelledFields(r), LAMBDA lf : IsSome(lf[2]))
    IN  [k \in 1..Len(present) |-> present[k][1] \o Unwrap(present[k][2])]
\* lines k.. of a text whose lines are separated by a blank line
RECURSIVE LinesFrom(_, _)
LinesFrom(lines, k) ==
    IF k > Len(lines) THEN << >>
    ELSE (IF k > 1 THEN <<"\n", "\n">> ELSE << >>)
         \o lines[k] \o LinesFrom(lines, k + 1)
\* none of the seven fields of the description is present
NothingToDescribe(r) ==
    IsNone(r.project_description) /\ LabelledLines(r) = << >>

\* C12, as stated: the description holds one labelled line for each present
\* field among primary description, department, region, country, framework,
\* NAICS sector and profile URL, in that order, joined by blank lines, and is
\* absent exactly when all seven are absent.
C12_AsStated ==
    \A k \in 1..Len(Written) :
        LET r == RecordOf(Written[k])
            d == Written[k].description
            rest == LinesFrom(LabelledLines(r), 1)
            first == IF LabelledLines(r) = << >> THEN Unwrap(d)
                     ELSE SubSeq(Unwrap(d), 1, Len(Unwrap(d)) - Len(rest) - 2)
            value == Unwrap(r.project_description)
        IN  /\ NothingToDescribe(r) <=> d = None
            /\ (IsNone(r.project_description) /\ ~NothingToDescribe(r)) =>
                 d = Some(rest)
            /\ IsSome(r.project_description) =>
                 /\ Len(first) > Len(value)
                 /\ SubSeq(first, Len(first) - Len(value) + 1, Len(first)) = value

\* C12, amended: the description holds the primary description as it is,
\* without a label, and one line "Label: value" for each present field among
\* department, region, country, framework, NAICS sector and profile URL, in
\* that order, joined by blank lines; no other field contributes; it is
\* absent, not empty, exactly when all seven are absent.
C12_Description ==
    \A k \in 1..Len(Written) :
        LET r == RecordOf(Written[k])
            d == Written[k].description
            lines == (IF IsSome(r.project_description)
                      THEN <<Unwrap(r.project_description)>> ELSE << >>)
                     \o LabelledLines(r)
        IN  /\ NothingToDescribe(r) <=> d = None
            /\ ~NothingToDescribe(r) => d = Some(LinesFrom(lines, 1))
            /\ d # Some(<< >>)

\* a record with a primary description, a region and a profile URL, without
\* a department, and with the fields that do not contribute
C12_Witness ==
    /\ Answered
    /\ Len(Written) = 1
    /\ IsSome(RecordOf(Written[1]).project_description)
    /\ IsNone(RecordOf(Written[1]).department)
    /\ IsSome(RecordOf(Written[1]).region)
    /\ IsSome(RecordOf(Written[1]).project_profile_url)
    /\ IsSome(RecordOf(Written[1]).fiscal_year)
    /\ IsSome(RecordOf(Written[1]).committed)
    /\ Len(LabelledLines(RecordOf(Written[1]))) = 2
    /\ IsSome(Written[1].description)
    /\ SubSeq(Unwrap(Written[1].description), 1, 5) = <<"W", "e", "l", "l", "s">>

\* ------------------------------------------------------------------ committed that is no number: claims

\* committed cells whose text is not empty and is no number
UnparsableCells ==
    {DataString(<<"1", ",", "0", "0", "0", ",", "0", "0", "0">>), DataString(<<"n", "/", "a">>), DataString(<<"$", "5">>),
     DataString(<<".">>), DataString(<<"-">>), DataBool(TRUE),
     DataError(<<"#", "D", "I", "V", "/", "0", "!">>)}
\* the committed cell of the one data row of the request
CommittedCell == req.file.sheets[1].rows[2][2]
\* read_excel_file has returned Ok
ReadOk == pc \in {"read_ok", "loop", "done"} /\ read_error = None

\* C13: a committed cell whose text does not parse as a number produces no
\* error (reading fails only for a sheet the workbook does not hold) and
\* does not drop the row: the reader returns the record with
\* committed absent, the row written from it has no priority, and the only
\* error entries of the outcome are those of inserts that failed.
C13_UnparsableCommitted ==
    (req.file.readable /\ CommittedCell \in UnparsableCells) =>
        /\ IsSome(read_error) => req.sheet_name = Some("Missing")
        /\ ReadOk =>
             /\ Len(records) = 1
             /\ IsSome(records[1].project_name)
             /\ records[1].committed = None
        /\ \A k \in 1..Len(Written) : Written[k].priority = None
        /\ Len(errors) = Count(attempts, LAMBDA a : ~a.ok)
        /\ \A k \in 1..Len(errors) : errors[k].error \in DbErrors
        /\ pc = "done" /\ ReadOk =>
             /\ Unwrap(response).status = 200
             /\ Unwrap(response).records_processed = Some(1)
             /\ Unwrap(response).errors = errors

\* the record of the cell "1,000,000" is written, and nothing is reported
C13_Witness ==
    /\ Answered
    /\ CommittedCell = DataString(<<"1", ",", "0", "0", "0", ",", "0", "0", "0">>)
    /\ Len(Written) = 1
    /\ RecordOf(Written[1]).committed = None
    /\ Written[1].priority = None
    /\ Unwrap(response).errors = << >>
    /\ Unwrap(response).records_inserted = Some(1)

\* ------------------------------------------------------------------ audit columns: claims

\* C14: every row the importer writes has "excel-import" as its creator and
\* as its modifier, which is the id of no user of the rows the table held,
\* and its creation time equals its modification time, one reading of the
\* clock made for that record; the rows the table held are left as they were.
C14_AuditColumns ==
    /\ projects[1] = ExistingRow
    /\ \A k \in 1..Len(Written) :
        /\ Written[k].created_by = "excel-import"
        /\ Written[k].modified_user_id = "excel-import"
        /\ Written[k].created_by # ExistingRow.created_by
        /\ Written[k].date_entered = Written[k].date_modified
        /\ Written[k].date_entered <= clock
        /\ k > 1 => Written[k - 1].date_entered <= Written[k].date_entered

\* two records written at different times, each with one time in both columns
C14_Witness ==
    /\ Answered
    /\ Len(Written) >= 2
    /\ Written[1].date_entered < Written[2].date_entered
    /\ Written[1].date_modified = Written[1].date_entered
    /\ Written[2].date_modified = Written[2].date_entered
    /\ Written[2].modified_user_id = "excel-import"

\* ------------------------------------------------------------------ db_execute_query

\* bounds of the result of a query
MaxColumns == 2
MaxFetched == 2

import_vars == <<req, pc, read_vars, loop_vars, response>>

\* str::starts_with
StartsWith(s, pat) ==
    Len(s) >= Len(pat) /\ SubSeq(s, 1, Len(pat)) = pat

\* query_req.query.trim().to_lowercase() starts with "select"
\* (a variant that does not trim)
IsSelectUntrimmed(query) == StartsWith(ToLowercase(query), <<"s", "e", "l", "e", "c", "t">>)
IsSelect(query) == StartsWith(ToLowercase(Trim(query)), <<"s", "e", "l", "e", "c", "t">>)

\* serde_json::Value: Null and String
JsonNull == [t |-> "Null", s |-> ""]
JsonString(s) == [t |-> "String", s |-> s]

\* the raw value of a column of a PgRow: null, a text, a value of a type
\* that does not decode as String
RawNull == [k |-> "null", s |-> ""]
RawText(s) == [k |-> "text", s |-> s]
RawOther == [k |-> "other", s |-> ""]
Column(name, raw) == [name |-> name, raw |-> raw]

\* the value of column i: try_get_raw(i) is Ok for every i of
\* row.columns().iter().enumerate(), so its Err arm is not taken
\* (a variant that gives the text "null" for a null)
JsonValueNullText(column) ==
    IF column.raw.k = "null" THEN JsonString("null")
    ELSE IF column.raw.k = "text" THEN JsonString(column.raw.s)
    ELSE JsonString("Non-string value")
JsonValue(column) ==
    IF column.raw.k = "null" THEN JsonNull
    ELSE IF column.raw.k = "text" THEN JsonString(column.raw.s)
    ELSE JsonString("Non-string value")

\* the column names of the model, in the order of str::cmp
ColumnNames == <<"a", "b", "c">>
NameRank(name) == CHOOSE i \in 1..Len(ColumnNames) : ColumnNames[i] = name

\* serde_json::Map: the map is the sequence of its entries in the order in
\* which it iterates and serializes
HasKey(map, key) == \E i \in 1..Len(map) : map[i].key = key
\* the place an entry of a new key takes: the map keeps the order of
\* insertion
\* (a variant that keeps the entries in the order of their keys)
MapPlaceSorted(map, entry) ==
    LET before == SelectSeq(map, LAMBDA e : NameRank(e.key) < NameRank(entry.key))
        after == SelectSeq(map, LAMBDA e : NameRank(e.key) > NameRank(entry.key))
    IN  before \o <<entry>> \o after
MapPlace(map, entry) == Append(map, entry)
\* row_map.insert(column.name().to_string(), value): the value of a key the
\* map has is replaced
\* (a variant that keeps the value a key already has)
MapInsertKeepFirst(map, key, value) ==
    IF HasKey(map, key) THEN map
    ELSE MapPlace(map, [key |-> key, value |-> value])
MapInsert(map, key, value) ==
    IF HasKey(map, key)
    THEN [i \in 1..Len(map) |->
            IF map[i].key = key THEN [key |-> key, value |-> value] ELSE map[i]]
    ELSE MapPlace(map, [key |-> key, value |-> value])

\* row_map after the columns 1..i of the row
RECURSIVE RowMapUpTo(_, _)
RowMapUpTo(row, i) ==
    IF i = 0 THEN << >>
    ELSE MapInsert(RowMapUpTo(row, i - 1), row[i].name, JsonValue(row[i]))
RowMap(row) == RowMapUpTo(row, Len(row))

\* sqlx errors fetch_all can end with
StoreErrors == {"syntax error", "connection closed"}

\* DatabaseResponse with its status
DatabaseResponse(status, success, message, error, data) ==
    [status |-> status, success |-> success, message |-> message,
     error |-> error, data |-> data]

\* if !query.starts_with("select") { return BadRequest }
\* (a variant that runs the query before it answers)
QueryRejectedAfterExecute ==
    /\ qpc = "guard"
    /\ ~IsSelect(query_req)
    /\ executed' = Append(executed, query_req)
    /\ query_response' =
         Some(DatabaseResponse(400, FALSE, None,
                               Some(<<"Only SELECT queries are allowed">>), None))
    /\ qpc' = "done"
    /\ UNCHANGED <<aux_vars, import_vars, query_req, fetched, results>>
QueryRejected ==
    /\ qpc = "guard"
    /\ ~IsSelect(query_req)
    /\ query_response' =
         Some(DatabaseResponse(400, FALSE, None,
                               Some(<<"Only SELECT queries are allowed">>), None))
    /\ qpc' = "done"
    /\ UNCHANGED <<aux_vars, import_vars, query_req, executed, fetched, results>>

QueryAccepted ==
    /\ qpc = "guard"
    /\ IsSelect(query_req)
    /\ qpc' = "fetch"
    /\ UNCHANGED <<aux_vars, import_vars, query_req, executed, fetched, results,
                   query_response>>

\* the rows of a result whose columns have these names
RawValues == {RawNull, RawText("x"), RawText("null"), RawOther}
RowsOver(names) ==
    {[i \in 1..Len(names) |-> Column(names[i], v[i])] :
        v \in [1..Len(names) -> RawValues]}
UniformRows(names) ==
    {[i \in 1..Len(names) |-> Column(names[i], v)] : v \in {RawNull, RawOther}}
\* the results of a join: any row first, then rows of one kind of value
JoinResults ==
    UNION {{<< >>} \cup
           {<<r>> \o rest : r \in RowsOver(names),
                            rest \in SeqsUpTo(UniformRows(names), MaxFetched - 1)} :
           names \in SeqsUpTo({ColumnNames[i] : i \in 1..Len(ColumnNames)},
                              MaxColumns)}
JoinQuery == <<"S", "e", "l", "e", "c", "t", " ", "*", " ", "F", "r", "o", "m", " ", "t", ",", " ", "u">>
\* the results the store can give for a query
ResultsOf(query) ==
    IF query = JoinQuery THEN JoinResults
    ELSE {<< >>, <<<<Column("a", RawText("1"))>>>>}

\* sqlx::query(query).fetch_all(pool).await? ends with Err
\* (a variant that answers with the rows it has, marked as failed)
FetchErrWithRows ==
    /\ qpc = "fetch"
    /\ executed' = Append(executed, query_req)
    /\ \E e \in StoreErrors :
         query_response' =
           Some(DatabaseResponse(500, FALSE, None, Some(<<"Query failed", e>>),
                                 Some(<< >>)))
    /\ qpc' = "done"
    /\ UNCHANGED <<aux_vars, import_vars, query_req, fetched, results>>
FetchErr ==
    /\ qpc = "fetch"
    /\ executed' = Append(executed, query_req)
    /\ \E e \in StoreErrors :
         query_response' =
           Some(DatabaseResponse(500, FALSE, None, Some(<<"Query failed", e>>),
                                 None))
    /\ qpc' = "done"
    /\ UNCHANGED <<aux_vars, import_vars, query_req, fetched, results>>

\* sqlx::query(query).fetch_all(pool).await? gives the rows
\* (a variant that runs the trimmed lower-case copy of the query)
FetchOkLowercased ==
    /\ qpc = "fetch"
    /\ executed' = Append(executed, ToLowercase(Trim(query_req)))
    /\ \E rows \in ResultsOf(query_req) : fetched' = rows
    /\ results' = << >>
    /\ qpc' = "rows"
    /\ UNCHANGED <<aux_vars, import_vars, query_req, query_response>>
FetchOk ==
    /\ qpc = "fetch"
    /\ executed' = Append(executed, query_req)
    /\ \E rows \in ResultsOf(query_req) : fetched' = rows
    /\ results' = << >>
    /\ qpc' = "rows"
    /\ UNCHANGED <<aux_vars, import_vars, query_req, query_response>>

\* one turn of for row in rows: results.push(Value::Object(row_map))
\* (a variant that fails the query at a value that is no text)
PushRowFailsOnOther ==
    /\ qpc = "rows"
    /\ Len(results) < Len(fetched)
    /\ LET row == fetched[Len(results) + 1]
       IN  IF \E i \in 1..Len(row) : row[i].raw.k = "other"
           THEN /\ query_response' =
                     Some(DatabaseResponse(500, FALSE, None,
                                           Some(<<"Query failed", "decode">>),
                                           None))
                /\ qpc' = "done"
                /\ UNCHANGED results
           ELSE /\ results' = Append(results, RowMap(row))
                /\ UNCHANGED <<qpc, query_response>>
    /\ UNCHANGED <<aux_vars, import_vars, query_req, executed, fetched>>
PushRow ==
    /\ qpc = "rows"
    /\ Len(results) < Len(fetched)
    /\ results' = Append(results, RowMap(fetched[Len(results) + 1]))
    /\ UNCHANGED <<aux_vars, import_vars, query_req, qpc, executed, fetched,
                   query_response>>

\* Ok(Value::Array(results)), and the Ok arm of db_execute_query
QueryRespond ==
    /\ qpc = "rows"
    /\ Len(results) >= Len(fetched)
    /\ query_response' =
         Some(DatabaseResponse(200, TRUE,
                               Some(<<"Query executed successfully">>), None,
                               Some(results)))
    /\ qpc' = "done"
    /\ UNCHANGED <<aux_vars, import_vars, query_req, executed, fetched, results>>

\* the queries of the requests
Queries ==
    {<<" ", "S", "e", "l", "e", "c", "t", " ", "1">>, <<"u", "p", "d", "a", "t", "e", " ", "t", " ", "s", "e", "t", " ", "x", "=", "1">>, JoinQuery, <<"s", "e", "l", "e", "c", "t">>, <<"s", "e", "l", "e", "c", "t", "x">>,
     <<"\t", "S", "E", "L", "E", "C", "T", " ", "1", "\n">>, <<>>, <<" ">>, <<"s", "e", "l">>, <<"d", "e", "l", "e", "t", "e", " ", "f", "r", "o", "m", " ", "t">>, <<"(", "s", "e", "l", "e", "c", "t", " ", "1", ")">>,
     <<";", " ", "s", "e", "l", "e", "c", "t", " ", "1">>, <<"-", "-", " ", "s", "e", "l", "e", "c", "t">>, <<"S", "e", "L", "e", "C", "t", " ", "*", " ", "f", "r", "o", "m", " ", "t">>, <<"s", " ", "e", "l", "e", "c", "t", " ", "1">>,
     <<"U", "P", "D", "A", "T", "E", " ", "t", " ", "S", "E", "T", " ", "x", " ", "=", " ", "'", "s", "e", "l", "e", "c", "t", "'">>}

InitQuery ==
    /\ req = [file |-> Unreadable, sheet_name |-> None]
    /\ pc = "idle"
    /\ sheet_name = ""
    /\ range = << >>
    /\ headers = << >>
    /\ rows_done = 0
    /\ records = << >>
    /\ read_error = None
    /\ index = 0
    /\ inserted_count = 0
    /\ total_records = 0
    /\ errors = << >>
    /\ projects = <<ExistingRow>>
    /\ attempts = << >>
    /\ clock = 1
    /\ response = None
    /\ query_req \in Queries
    /\ qpc = "guard"
    /\ executed = << >>
    /\ fetched = << >>
    /\ results = << >>
    /\ query_response = None
    /\ AuxIdle

NextQuery ==
    \/ QueryRejected
    \/ QueryAccepted
    \/ FetchErr
    \/ FetchOk
    \/ PushRow
    \/ QueryRespond

\* db_execute_query on every query and every result of the store
SpecQuery == InitQuery /\ [][NextQuery]_vars

\* ------------------------------------------------------------------ select-only guard: claims

\* the query passed the guard; the query was answered 400 by the guard
Accepted ==
    \/ qpc \in {"fetch", "rows"}
    \/ qpc = "done" /\ Unwrap(query_response).status \in {200, 500}
Rejected == qpc = "done" /\ Unwrap(query_response).status = 400
\* after whitespace only, the text has the letters s e l e c t in either case
BeginsWithSelect(query) ==
    \E i \in 1..Len(query) :
        /\ \A j \in 1..(i - 1) : query[j] \in {" ", "\t", "\n", "\r"}
        /\ Len(query) >= i + 5
        /\ query[i] \in {"s", "S"}
        /\ query[i + 1] \in {"e", "E"}
        /\ query[i + 2] \in {"l", "L"}
        /\ query[i + 3] \in {"e", "E"}
        /\ query[i + 4] \in {"c", "C"}
        /\ query[i + 5] \in {"t", "T"}

\* C15: once the guard has decided, the query is accepted if, after
\* whitespace at its start, it begins with "select" in any case of the
\* letters, and is rejected otherwise; " Select 1" is accepted and
\* "update t set x=1" is rejected.
C15_SelectGuard ==
    qpc \notin {"idle", "guard"} =>
        /\ BeginsWithSelect(query_req) => Accepted /\ ~Rejected
        /\ ~BeginsWithSelect(query_req) => Rejected /\ ~Accepted
        /\ query_req = <<" ", "S", "e", "l", "e", "c", "t", " ", "1">> => Accepted
        /\ query_req = <<"u", "p", "d", "a", "t", "e", " ", "t", " ", "s", "e", "t", " ", "x", "=", "1">> => Rejected

\* " Select 1" has been run and answered with the rows
C15_Witness ==
    /\ query_req = <<" ", "S", "e", "l", "e", "c", "t", " ", "1">>
    /\ qpc = "done"
    /\ executed = <<query_req>>
    /\ Unwrap(query_response).status = 200
    /\ Unwrap(query_response).success

\* C16: a query the guard rejects is never run by the store, and its
\* response is 400 with success false, an error message and no data.
C16_RejectedNeverExecuted ==
    /\ ~BeginsWithSelect(query_req) => executed = << >> /\ fetched = << >>
    /\ Rejected =>
         /\ executed = << >>
         /\ Unwrap(query_response).success = FALSE
         /\ IsSome(Unwrap(query_response).error)
         /\ Unwrap(query_response).data = None
         /\ Unwrap(query_response).message = None

\* "update t set x=1" has been answered 400 and was not run
C16_Witness ==
    /\ query_req = <<"u", "p", "d", "a", "t", "e", " ", "t", " ", "s", "e", "t", " ", "x", "=", "1">>
    /\ Rejected
    /\ executed = << >>
    /\ projects = <<ExistingRow>>

\* ------------------------------------------------------------------ row maps: claims

\* the value a key of a map has; how many entries a map has for a key
Get(map, key) == map[CHOOSE i \in 1..Len(map) : map[i].key = key].value
KeyCount(map, key) == Cardinality({i \in 1..Len(map) : map[i].key = key})
\* no later column of the row has the name of column i
LastOfName(row, i) == \A j \in (i + 1)..Len(row) : row[j].name # row[i].name
\* the names of the columns of a row
NamesOf(row) == {row[i].name : i \in 1..Len(row)}
\* the JSON value a raw value is to be given as
ValueFor(raw) ==
    CASE raw.k = "null" -> [t |-> "Null", s |-> ""]
      [] raw.k = "text" -> [t |-> "String", s |-> raw.s]
      [] raw.k = "other" -> [t |-> "String", s |-> "Non-string value"]
\* the map has the names of the row as its keys, and for each name the
\* value of the last column of that name
MapOfRow(map, row) ==
    /\ \A i \in 1..Len(row) :
         /\ HasKey(map, row[i].name)
         /\ LastOfName(row, i) => Get(map, row[i].name) = ValueFor(row[i].raw)
    /\ \A e \in 1..Len(map) : map[e].key \in NamesOf(row)
\* the rows have been fetched and answered
RowsAnswered ==
    /\ qpc = "done"
    /\ Unwrap(query_response).status = 200
    /\ Unwrap(query_response).data = Some(results)

\* C17, as stated: for every row and every column whose raw value is null,
\* the map of the row has the column's name as a key with the value JSON
\* null.
C17_AsStated ==
    \A k \in 1..Len(results) : \A i \in 1..Len(fetched[k]) :
        fetched[k][i].raw.k = "null" =>
            /\ HasKey(results[k], fetched[k][i].name)
            /\ Get(results[k], fetched[k][i].name) = JsonNull

\* C17, amended: for every row and every column whose raw value is null, the
\* map of the row has the column's name as a key, and, when no later column
\* of the row has the same name, with the value JSON null, which is neither
\* the text "null" nor the placeholder; a column whose text is "null" gives
\* the text.
C17_NullColumns ==
    \A k \in 1..Len(results) : \A i \in 1..Len(fetched[k]) :
        LET name == fetched[k][i].name
            raw == fetched[k][i].raw
        IN  /\ raw.k = "null" => HasKey(results[k], name)
            /\ (raw.k = "null" /\ LastOfName(fetched[k], i)) =>
                 /\ Get(results[k], name) = JsonNull
                 /\ Get(results[k], name).t # "String"
            /\ (raw = RawText("null") /\ LastOfName(fetched[k], i)) =>
                 /\ Get(results[k], name) = JsonString("null")
                 /\ Get(results[k], name) # JsonNull

\* a row answered with JSON null for its null column and with the text for
\* its column of the text "null"
C17_Witness ==
    /\ RowsAnswered
    /\ Len(fetched) = 1
    /\ fetched[1] = <<Column("a", RawNull), Column("b", RawText("null"))>>
    /\ Get(results[1], "a") = JsonNull
    /\ Get(results[1], "b") = JsonString("null")

\* C18: a value that is not null and does not decode as text is given as
\* the placeholder "Non-string value", and fails neither the row nor the
\* query: a query whose rows were fetched is answered 200 with one map for
\* each row, in the order of the rows, whatever the values are.
C18_OpaqueValues ==
    /\ Len(results) <= Len(fetched)
    /\ \A k \in 1..Len(results) :
         /\ MapOfRow(results[k], fetched[k])
         /\ \A i \in 1..Len(fetched[k]) :
              (fetched[k][i].raw.k = "other" /\ LastOfName(fetched[k], i)) =>
                  Get(results[k], fetched[k][i].name) =
                      JsonString("Non-string value")
    /\ (qpc = "done" /\ fetched # << >>) =>
         /\ RowsAnswered
         /\ Len(results) = Len(fetched)

\* two rows answered in order, the first with a placeholder
C18_Witness ==
    /\ RowsAnswered
    /\ Len(fetched) = 2
    /\ fetched[1] = <<Column("a", RawOther), Column("b", RawText("x"))>>
    /\ fetched[2] = <<Column("a", RawNull), Column("b", RawNull)>>
    /\ Get(Unwrap(Unwrap(query_response).data)[1], "a") =
           JsonString("Non-string value")
    /\ Get(Unwrap(Unwrap(query_response).data)[2], "a") = JsonNull

\* C19: when columns of a row share a name the map has one entry for the
\* name, with the value of the last of them; the map has as many keys as
\* the row has distinct column names.
C19_LastWriteWins ==
    \A k \in 1..Len(results) :
        LET row == fetched[k]
        IN  /\ Len(results[k]) = Cardinality(NamesOf(row))
            /\ \A name \in NamesOf(row) :
                 LET last == CHOOSE i \in 1..Len(row) :
                                 row[i].name = name /\ LastOfName(row, i)
                 IN  /\ KeyCount(results[k], name) = 1
                     /\ Get(results[k], name) = ValueFor(row[last].raw)

\* two columns named a: the map has the value of the second alone
C19_Witness ==
    /\ RowsAnswered
    /\ Len(fetched) = 1
    /\ fetched[1] = <<Column("a", RawOther), Column("a", RawText("x"))>>
    /\ results[1] = <<[key |-> "a", value |-> JsonString("x")]>>

\* C20: the keys of the map of a row whose column names are distinct are
\* the column names in the order of the columns.
C20_KeyOrder ==
    \A k \in 1..Len(results) :
        Cardinality(NamesOf(fetched[k])) = Len(fetched[k]) =>
            /\ Len(results[k]) = Len(fetched[k])
            /\ \A i \in 1..Len(fetched[k]) :
                 results[k][i].key = fetched[k][i].name

\* the columns b, a give the keys b, a
C20_Witness ==
    /\ RowsAnswered
    /\ Len(fetched) = 1
    /\ fetched[1] = <<Column("b", RawText("x")), Column("a", RawNull)>>
    /\ results[1][1].key = "b"
    /\ results[1][2].key = "a"

\* ------------------------------------------------------------------ failed query: claims

\* the store failed the query that was accepted
StoreFailed == qpc = "done" /\ Unwrap(query_response).status = 500

\* C21: when the store fails an accepted query the request has one answer,
\* a failure: success false, an error message naming the store's error, no
\* message and no data; no row map was made, and none is in the answer.
C21_StoreFailure ==
    /\ StoreFailed =>
         /\ BeginsWithSelect(query_req)
         /\ executed = <<query_req>>
         /\ Unwrap(query_response).success = FALSE
         /\ IsSome(Unwrap(query_response).error)
         /\ Unwrap(Unwrap(query_response).error)[1] = "Query failed"
         /\ Unwrap(Unwrap(query_response).error)[2] \in StoreErrors
         /\ Unwrap(query_response).message = None
         /\ Unwrap(query_response).data = None
         /\ results = << >>
         /\ fetched = << >>
    /\ (IsSome(query_response) /\ IsSome(Unwrap(query_response).data)) =>
         /\ Unwrap(query_response).status = 200
         /\ Unwrap(query_response).success
         /\ Len(Unwrap(Unwrap(query_response).data)) = Len(fetched)

\* the join query was run, and failed at the store
C21_Witness ==
    /\ StoreFailed
    /\ query_req = JoinQuery
    /\ executed = <<JoinQuery>>
    /\ Unwrap(query_response).error = Some(<<"Query failed", "connection closed">>)
    /\ Unwrap(query_response).data = None

\* ------------------------------------------------------------------ concurrent requests on the pool

\* PgPoolOptions::new().max_connections(5)
MaxConnections == 5
\* how many requests run at once
MaxTasks == 6

\* the import handler and the query handler have no request
ImportIdle ==
    /\ req = [file |-> Unreadable, sheet_name |-> None]
    /\ pc = "idle"
    /\ sheet_name = ""
    /\ range = << >>
    /\ headers = << >>
    /\ rows_done = 0
    /\ records = << >>
    /\ read_error = None
    /\ index = 0
    /\ inserted_count = 0
    /\ total_records = 0
    /\ errors = << >>
    /\ projects = <<ExistingRow>>
    /\ attempts = << >>
    /\ clock = 1
    /\ response = None
QueryIdle ==
    /\ query_req = << >>
    /\ qpc = "idle"
    /\ executed = << >>
    /\ fetched = << >>
    /\ results = << >>
    /\ query_response = None

\* the locals of a request: of import_excel_data after reading n records,
\* and of db_execute_query after its guard; outcomes lists what became of
\* the request's own store operations
ImportTask(n) ==
    [kind |-> "import", n |-> n, pc |-> "wait", index |-> 0,
     inserted_count |-> 0, errors |-> << >>, outcomes |-> << >>,
     response |-> None]
QueryTask ==
    [kind |-> "query", n |-> 1, pc |-> "wait", index |-> 0,
     inserted_count |-> 0, errors |-> << >>, outcomes |-> << >>,
     response |-> None]

\* the sqlx error a store operation of a request can end with, the time
\* out of the pool apart
TaskErrors == {"connection closed"}

\* the pool has no connection left
Exhausted == Cardinality(held) >= MaxConnections

\* Pool::acquire, made by execute(pool) and by fetch_all(pool): a free
\* connection is taken; without one the request waits
PoolAcquire(r) ==
    /\ tasks[r].pc = "wait"
    /\ ~Exhausted
    /\ held' = held \cup {r}
    /\ tasks' = [tasks EXCEPT ![r].pc = "run"]
    /\ UNCHANGED <<import_vars, query_vars, fetch_vars, env_vars, table>>

\* the locals of an import after the insert of record index ended with
\* outcome o and, unless ok, error e
AfterInsert(t, o, e) ==
    [t EXCEPT !.index = @ + 1,
              !.inserted_count = IF o = "ok" THEN @ + 1 ELSE @,
              !.errors = IF o = "ok" THEN @ ELSE Append(@, RowError(t.index, e)),
              !.outcomes = Append(@, o),
              !.pc = IF t.index + 1 < t.n THEN "wait" ELSE "respond"]

\* insert_project_record returns Ok; the connection goes back to the pool
\* (a variant with one counter for all requests, kept by the first)
TaskInsertOkSharedCount(r) ==
    /\ tasks[r].kind = "import"
    /\ tasks[r].pc = "run"
    /\ held' = held \ {r}
    /\ table' = table \cup {[task |-> r, index |-> tasks[r].index]}
    /\ tasks' = [q \in DOMAIN tasks |->
                   IF q = r
                   THEN [AfterInsert(tasks[r], "ok", "") EXCEPT
                            !.inserted_count = IF r = 1 THEN @ ELSE tasks[r].inserted_count]
                   ELSE IF q = 1
                   THEN [tasks[q] EXCEPT !.inserted_count = @ + 1]
                   ELSE tasks[q]]
    /\ UNCHANGED <<import_vars, query_vars, fetch_vars, env_vars>>
TaskInsertOk(r) ==
    /\ tasks[r].kind = "import"
    /\ tasks[r].pc = "run"
    /\ held' = held \ {r}
    /\ table' = table \cup {[task |-> r, index |-> tasks[r].index]}
    /\ tasks' = [tasks EXCEPT ![r] = AfterInsert(tasks[r], "ok", "")]
    /\ UNCHANGED <<import_vars, query_vars, fetch_vars, env_vars>>

\* insert_project_record returns Err(e); the connection goes back
TaskInsertErr(r) ==
    /\ tasks[r].kind = "import"
    /\ tasks[r].pc = "run"
    /\ held' = held \ {r}
    /\ \E e \in TaskErrors :
         tasks' = [tasks EXCEPT ![r] = AfterInsert(tasks[r], "err", e)]
    /\ UNCHANGED <<import_vars, query_vars, fetch_vars, env_vars, table>>

\* no connection came free within the acquire timeout of the pool, which
\* the options leave at its default: execute returns Err(PoolTimedOut)
TaskInsertTimedOut(r) ==
    /\ tasks[r].kind = "import"
    /\ tasks[r].pc = "wait"
    /\ Exhausted
    /\ tasks' = [tasks EXCEPT
                   ![r] = AfterInsert(tasks[r], "timeout", "pool timed out")]
    /\ UNCHANGED <<import_vars, query_vars, fetch_vars, env_vars, held, table>>

\* the response of import_excel_data after its loop
TaskImportRespond(r) ==
    /\ tasks[r].kind = "import"
    /\ tasks[r].pc = "respond"
    /\ tasks' =
         [tasks EXCEPT
            ![r].response =
               Some([status |-> 200,
                     success |-> Success(tasks[r].errors, tasks[r].inserted_count),
                     records_processed |-> Some(tasks[r].n),
                     records_inserted |-> Some(tasks[r].inserted_count),
                     errors |-> tasks[r].errors]),
            ![r].pc = "done"]
    /\ UNCHANGED <<import_vars, query_vars, fetch_vars, env_vars, held, table>>

\* the answer of db_execute_query to the outcome o of fetch_all
QueryAnswer(o, e) ==
    IF o = "ok"
    THEN DatabaseResponse(200, TRUE, Some(<<"Query executed successfully">>),
                          None, Some(<<RowMap(<<Column("a", RawText("1"))>>)>>))
    ELSE DatabaseResponse(500, FALSE, None, Some(<<"Query failed", e>>), None)
AfterFetch(t, o, e) ==
    [t EXCEPT !.index = @ + 1,
              !.outcomes = Append(@, o),
              !.response = Some(QueryAnswer(o, e)),
              !.pc = "done"]

\* fetch_all gives the rows; the connection goes back to the pool
TaskFetchOk(r) ==
    /\ tasks[r].kind = "query"
    /\ tasks[r].pc = "run"
    /\ held' = held \ {r}
    /\ tasks' = [tasks EXCEPT ![r] = AfterFetch(tasks[r], "ok", "")]
    /\ UNCHANGED <<import_vars, query_vars, fetch_vars, env_vars, table>>

\* fetch_all ends with Err(e); the connection goes back
TaskFetchErr(r) ==
    /\ tasks[r].kind = "query"
    /\ tasks[r].pc = "run"
    /\ held' = held \ {r}
    /\ \E e \in TaskErrors :
         tasks' = [tasks EXCEPT ![r] = AfterFetch(tasks[r], "err", e)]
    /\ UNCHANGED <<import_vars, query_vars, fetch_vars, env_vars, table>>

\* fetch_all returns Err(PoolTimedOut)
TaskFetchTimedOut(r) ==
    /\ tasks[r].kind = "query"
    /\ tasks[r].pc = "wait"
    /\ Exhausted
    /\ tasks' = [tasks EXCEPT
                   ![r] = AfterFetch(tasks[r], "timeout", "pool timed out")]
    /\ UNCHANGED <<import_vars, query_vars, fetch_vars, env_vars, held, table>>

\* the requests that run at once: imports of two records and of one, or
\* queries in their place, and queries
TaskSets ==
    {[r \in 1..MaxTasks |-> IF r = 1 THEN first
                            ELSE IF r = 2 THEN second ELSE QueryTask] :
        first \in {ImportTask(2), QueryTask},
        second \in {ImportTask(1), QueryTask}}

InitPool ==
    /\ ImportIdle
    /\ QueryIdle
    /\ FetchIdle
    /\ EnvIdle
    /\ tasks \in TaskSets
    /\ held = {}
    /\ table = {}

NextPool ==
    \/ \E r \in DOMAIN tasks : PoolAcquire(r)
    \/ \E r \in DOMAIN tasks : TaskInsertOk(r)
    \/ \E r \in DOMAIN tasks : TaskInsertErr(r)
    \/ \E r \in DOMAIN tasks : TaskInsertTimedOut(r)
    \/ \E r \in DOMAIN tasks : TaskImportRespond(r)
    \/ \E r \in DOMAIN tasks : TaskFetchOk(r)
    \/ \E r \in DOMAIN tasks : TaskFetchErr(r)
    \/ \E r \in DOMAIN tasks : TaskFetchTimedOut(r)

\* import and query requests that run at once on one pool
SpecPool == InitPool /\ [][NextPool]_vars

\* ------------------------------------------------------------------ concurrent requests: claims

\* the positions of the outcomes of a request that are, or are not, ok
OkPositions(t) == {i \in 1..Len(t.outcomes) : t.outcomes[i] = "ok"}
FailedPositions(t) == {i \in 1..Len(t.outcomes) : t.outcomes[i] # "ok"}
\* the locals and the response of an import are those its own input and the
\* outcomes of its own inserts give, and its rows in the table are those of
\* its own inserts that ended ok
ImportIsOwn(r) ==
    LET t == tasks[r]
    IN  /\ t.index = Len(t.outcomes)
        /\ t.index <= t.n
        /\ t.inserted_count = Cardinality(OkPositions(t))
        /\ Len(t.errors) = Cardinality(FailedPositions(t))
        /\ {Unwrap(t.errors[k].row) : k \in 1..Len(t.errors)} = FailedPositions(t)
        /\ \A k \in 1..(Len(t.errors) - 1) :
             Unwrap(t.errors[k].row) < Unwrap(t.errors[k + 1].row)
        /\ {row.index + 1 : row \in {w \in table : w.task = r}} = OkPositions(t)
        /\ t.pc = "done" =>
             /\ Len(t.outcomes) = t.n
             /\ Unwrap(t.response).records_processed = Some(t.n)
             /\ Unwrap(t.response).records_inserted =
                    Some(Cardinality(OkPositions(t)))
             /\ Unwrap(t.response).errors = t.errors
             /\ Unwrap(t.response).success =
                    (FailedPositions(t) = {} \/ OkPositions(t) # {})
        /\ t.pc # "done" => t.response = None
\* the response of a query is the one the outcome of its own fetch gives
QueryIsOwn(r) ==
    LET t == tasks[r]
    IN  /\ t.inserted_count = 0 /\ t.errors = << >>
        /\ {w \in table : w.task = r} = {}
        /\ t.pc = "done" =>
             /\ Len(t.outcomes) = 1
             /\ t.outcomes[1] = "ok" =>
                  /\ Unwrap(t.response).status = 200
                  /\ IsSome(Unwrap(t.response).data)
             /\ t.outcomes[1] # "ok" =>
                  /\ Unwrap(t.response).status = 500
                  /\ Unwrap(t.response).data = None
        /\ t.pc # "done" => t.outcomes = << >> /\ t.response = None
\* at most MaxConnections requests hold a connection, those that run a
\* store operation; every row of the table is of a request
PoolCapped ==
    /\ Cardinality(held) <= MaxConnections
    /\ held = {r \in DOMAIN tasks : tasks[r].pc = "run"}
    /\ \A w \in table : w.task \in DOMAIN tasks
\* the requests that have had a connection
HadConnection == {q \in DOMAIN tasks : tasks[q].pc = "run" \/ tasks[q].outcomes # << >>}
\* a store operation of the request ended because the pool timed out
TimedOut(r) == \E i \in 1..Len(tasks[r].outcomes) : tasks[r].outcomes[i] = "timeout"

\* C22, as stated: under every interleaving of imports and queries on the
\* pool of 5 connections the result of each request is that of its own
\* input and of the outcomes of its own store operations, and a request
\* that finds the pool exhausted waits and does not fail.
C22_AsStated ==
    /\ PoolCapped
    /\ \A r \in DOMAIN tasks :
         /\ tasks[r].kind = "import" => ImportIsOwn(r)
         /\ tasks[r].kind = "query" => QueryIsOwn(r)
         /\ ~TimedOut(r)

\* C22, amended: under every interleaving of imports and queries on the
\* pool of 5 connections the result of each request is that of its own
\* input and of the outcomes of its own store operations; a request that
\* finds the pool exhausted waits, and its store operation can end with the
\* pool's time out, which is reported as any other store error is: an error
\* entry for that record of an import, a failure of a query; no row is lost
\* without an error entry.
C22_Isolation ==
    /\ PoolCapped
    /\ \A r \in DOMAIN tasks :
         /\ tasks[r].kind = "import" => ImportIsOwn(r)
         /\ tasks[r].kind = "query" => QueryIsOwn(r)
         /\ TimedOut(r) => Cardinality(HadConnection \ {r}) >= MaxConnections

\* seven store operations of six requests have ended, that of the last
\* request by the time out of the pool, and the two imports have their own
\* counts
C22_Witness ==
    /\ \A r \in DOMAIN tasks : tasks[r].pc = "done"
    /\ tasks[1].kind = "import" /\ tasks[2].kind = "import"
    /\ tasks[1].outcomes = <<"ok", "err">>
    /\ tasks[2].outcomes = <<"ok">>
    /\ Unwrap(tasks[1].response).records_inserted = Some(1)
    /\ Unwrap(tasks[2].response).records_inserted = Some(1)
    /\ Cardinality(table) = 2
    /\ TimedOut(MaxTasks)
    /\ Unwrap(tasks[MaxTasks].response).status = 500

\* ------------------------------------------------------------------ the loop runs to its end: claims

\* import_excel_data whose insert attempts each end and whose future is
\* run to its end
SpecLive ==
    /\ Init
    /\ [][Next]_vars
    /\ WF_vars(ImportStart)
    /\ WF_vars(InsertOk \/ InsertErr)
    /\ WF_vars(ImportRespond)

\* every record read has had its one insert attempt, in order
AllAttempted ==
    /\ Len(attempts) = Len(records)
    /\ \A i \in 1..Len(attempts) : attempts[i].index = i - 1

\* C23: the import answers a batch only after every record read has had
\* its insert attempt; and, each insert attempt ending, a batch that is in
\* its loop is in the end answered with records_processed equal to the
\* number of records read.
C23_RunsToCompletion ==
    /\ [](Answered =>
            /\ AllAttempted
            /\ Unwrap(response).records_processed = Some(Len(records)))
    /\ (pc = "loop") ~>
          (Answered /\ AllAttempted
             /\ Unwrap(response).records_processed = Some(Len(records)))

\* a batch of three records answered after an insert that failed and two
\* that did not
C23_Witness ==
    /\ Answered
    /\ Len(records) = 3
    /\ Len(attempts) = 3
    /\ ~attempts[1].ok /\ attempts[2].ok /\ attempts[3].ok
    /\ Unwrap(response).records_processed = Some(3)

\* ------------------------------------------------------------------ columns: requests

\* how many columns a sheet has
MaxWidth == 3

\* header cells: two fields in several spellings, and headers of no field
ColumnHeaderCells ==
    {DataString(<<"P", "r", "o", "j", "e", "c", "t", " ", "N", "a", "m", "e">>), DataString(<<"R", "e", "g", "i", "o", "n">>), DataString(<<" ", "R", "E", "G", "I", "O", "N", " ">>),
     DataString(<<"N", "o", "t", "e", "s">>)}
ColumnCells == {DataEmpty, DataString(<<"E", "a", "s", "t">>), DataInt(7)}
\* sheets of a header row that begins with the name column or with a column
\* of no field, with a data row of any cells and a second of one text in
\* every column
ColumnSheets ==
    UNION {{Sheet("Sheet1", h, <<r, [c \in 1..w |-> DataString(<<"W", "e", "s", "t">>)]>>) :
              h \in {g \in [1..w -> ColumnHeaderCells] : g[1].s[1] \in {"P", "N"}},
              r \in [1..w -> ColumnCells]} :
           w \in 1..MaxWidth}
ColumnRequests ==
    [file : {Workbook(<<s>>) : s \in ColumnSheets} \cup {Unreadable},
     sheet_name : {None}]

InitColumns == InitWith(ColumnRequests)

\* read_excel_file on sheets whose columns repeat a header or have one of
\* no field
SpecColumns == InitColumns /\ [][Read]_vars

\* ------------------------------------------------------------------ columns: claims

\* the header cell is the text, but for letter case and whitespace around
HeaderIs(cell, text) ==
    /\ cell.t = "String"
    /\ \E i, j \in 1..Len(cell.s) :
         /\ \A k \in 1..(i - 1) : IsWhitespace(cell.s[k])
         /\ \A k \in (j + 1)..Len(cell.s) : IsWhitespace(cell.s[k])
         /\ j - i + 1 = Len(text)
         /\ \A k \in 1..Len(text) : SameLetter(cell.s[i + k - 1], text[k])
\* the columns of the header row with that header
ColumnsOf(first_row, text) ==
    {c \in 1..Len(first_row) : HeaderIs(first_row[c], text)}
\* the value of a data cell of these sheets
TextOf(cell) ==
    CASE IsBlank(cell) -> None
      [] cell.t = "String" -> Some(Core(cell.s))
      [] cell.t = "Int" -> Some(<<"7">>)
\* the value the last column with that header has in the row, if any
LastValue(first_row, row, text) ==
    IF ColumnsOf(first_row, text) = {} THEN None
    ELSE TextOf(row[LastOf(ColumnsOf(first_row, text))])

\* C24: every column index has a header entry of its own; and when several
\* columns have the same header, the field of each record has the value of
\* the last of them, which is none when that cell is empty.
C24_LastColumnWins ==
    (pc \in {"rows", "read_ok"} /\ range # << >>) =>
        LET rows == SubSeq(range, 2, rows_done)
            kept == SelectSeq(rows, LAMBDA row :
                        IsSome(LastValue(range[1], row, <<"p", "r", "o", "j", "e", "c", "t", " ", "n", "a", "m", "e">>)))
        IN  /\ DOMAIN headers = 0..(Len(range[1]) - 1)
            /\ Len(records) = Len(kept)
            /\ \A i \in 1..Len(records) :
                 /\ records[i].project_name =
                        LastValue(range[1], kept[i], <<"p", "r", "o", "j", "e", "c", "t", " ", "n", "a", "m", "e">>)
                 /\ records[i].region = LastValue(range[1], kept[i], <<"r", "e", "g", "i", "o", "n">>)

\* two region columns: the record has the value of the second, which is
\* none in the first data row
C24_Witness ==
    /\ pc = "read_ok"
    /\ range[1] = <<DataString(<<"P", "r", "o", "j", "e", "c", "t", " ", "N", "a", "m", "e">>), DataString(<<"R", "e", "g", "i", "o", "n">>),
                    DataString(<<" ", "R", "E", "G", "I", "O", "N", " ">>)>>
    /\ range[2] = <<DataInt(7), DataString(<<"E", "a", "s", "t">>), DataEmpty>>
    /\ Len(records) = 2
    /\ records[1].project_name = Some(<<"7">>)
    /\ records[1].region = None
    /\ records[2].region = Some(<<"W", "e", "s", "t">>)

\* the twelve headers of a field
KnownHeaders ==
    {<<"f", "i", "s", "c", "a", "l", " ", "y", "e", "a", "r">>, <<"p", "r", "o", "j", "e", "c", "t", " ", "n", "u", "m", "b", "e", "r">>, <<"p", "r", "o", "j", "e", "c", "t", " ", "t", "y", "p", "e">>, <<"r", "e", "g", "i", "o", "n">>, <<"c", "o", "u", "n", "t", "r", "y">>,
     <<"d", "e", "p", "a", "r", "t", "m", "e", "n", "t">>, <<"f", "r", "a", "m", "e", "w", "o", "r", "k">>, <<"p", "r", "o", "j", "e", "c", "t", " ", "n", "a", "m", "e">>, <<"c", "o", "m", "m", "i", "t", "t", "e", "d">>, <<"n", "a", "i", "c", "s", " ", "s", "e", "c", "t", "o", "r">>,
     <<"p", "r", "o", "j", "e", "c", "t", " ", "d", "e", "s", "c", "r", "i", "p", "t", "i", "o", "n">>, <<"p", "r", "o", "j", "e", "c", "t", " ", "p", "r", "o", "f", "i", "l", "e", " ", "u", "r", "l">>}
KnownColumns(first_row) ==
    {c \in 1..Len(first_row) :
        \E text \in KnownHeaders : HeaderIs(first_row[c], text)}
\* the cells of a row at the columns of a set, in order
Pick(row, cols) ==
    [k \in 1..Cardinality(cols) |->
        row[CHOOSE c \in cols : Cardinality({d \in cols : d < c}) = k - 1]]
\* the records read from a header row and data rows
RECURSIVE RecordsFrom(_, _)
RecordsFrom(first_row, rows) ==
    IF rows = << >> THEN << >>
    ELSE PushRecord(RecordsFrom(first_row, SubSeq(rows, 1, Len(rows) - 1)),
                    MapRow(HeadersOf(first_row), rows[Len(rows)]))

\* C25: a column whose header is none of the twelve is ignored: the records
\* read are those read from the sheet without such columns, no field other
\* than those of the headers of the sheet has a value, and there is no
\* error.
C25_UnknownColumnsIgnored ==
    (pc \in {"rows", "read_ok"} /\ range # << >>) =>
        LET known == KnownColumns(range[1])
            rows == SubSeq(range, 2, rows_done)
        IN  /\ read_error = None
            /\ records =
                 RecordsFrom(Pick(range[1], known),
                             [k \in 1..Len(rows) |-> Pick(rows[k], known)])
            /\ \A i \in 1..Len(records) :
                 \A f \in DOMAIN ProjectRecord \ {"project_name", "region"} :
                     records[i][f] = None

\* a column Notes between the name and the region: its cells are in no
\* record
C25_Witness ==
    /\ pc = "read_ok"
    /\ range[1] = <<DataString(<<"P", "r", "o", "j", "e", "c", "t", " ", "N", "a", "m", "e">>), DataString(<<"N", "o", "t", "e", "s">>),
                    DataString(<<"R", "e", "g", "i", "o", "n">>)>>
    /\ range[2] = <<DataString(<<"E", "a", "s", "t">>), DataInt(7), DataEmpty>>
    /\ Len(records) = 2
    /\ records[1] = [ProjectRecord EXCEPT !.project_name = Some(<<"E", "a", "s", "t">>)]
    /\ records[2] = [ProjectRecord EXCEPT !.project_name = Some(<<"W", "e", "s", "t">>),
                                          !.region = Some(<<"W", "e", "s", "t">>)]

\* ------------------------------------------------------------------ batches of no record

\* a sheet without any row
EmptySheet == [name |-> "Sheet1", rows |-> << >>]
\* the requests of the import, and those of an empty sheet and of sheets
\* whose rows have no project name
ZeroRequests ==
    ImportRequests
    \cup [file : {Workbook(<<EmptySheet>>),
                  Workbook(<<Sheet("Sheet1", ImportHeader,
                                   <<<<DataString(<<" ">>), DataInt(7)>>,
                                     <<DataEmpty, DataEmpty>>>>)>>),
                  Workbook(<<Sheet("Sheet1", <<DataString(<<"N", "a", "m", "e">>), DataString(<<"C", "o", "m", "m", "i", "t", "t", "e", "d">>)>>,
                                   <<<<DataString(<<"A", "l", "p", "h", "a">>), DataInt(7)>>>>)>>)},
          sheet_name : {None, Some("Sheet1")}]

InitZero == InitWith(ZeroRequests)

\* import_excel_data, also on sheets that give no record
SpecZero == InitZero /\ [][Next]_vars

\* C26: an import whose read gives no record (a sheet without rows, a sheet
\* of a header row alone, rows that all lack a project name) makes no
\* insert attempt and writes no row, and answers success true with
\* records_processed 0, records_inserted 0 and no errors.
C26_ZeroRecords ==
    /\ (pc \in {"read_ok", "loop", "done"} /\ req.file.readable /\ read_error = None
          /\ \A k \in 2..Len(req.file.sheets[1].rows) :
                ~HasName(req.file.sheets[1].rows[1], req.file.sheets[1].rows[k]))
         => records = << >>
    /\ (pc \in {"loop", "done"} /\ read_error = None /\ records = << >>) =>
         /\ attempts = << >>
         /\ Written = << >>
         /\ errors = << >>
         /\ pc = "done" =>
              /\ Unwrap(response).status = 200
              /\ Unwrap(response).success = TRUE
              /\ Unwrap(response).records_processed = Some(0)
              /\ Unwrap(response).records_inserted = Some(0)
              /\ Unwrap(response).errors = << >>

\* two rows without a project name: answered as a success of no record
C26_Witness ==
    /\ Answered
    /\ Len(range) = 3
    /\ records = << >>
    /\ attempts = << >>
    /\ Unwrap(response).success
    /\ Unwrap(response).records_processed = Some(0)

\* ------------------------------------------------------------------ preview_excel_data

\* records.iter().take(10)
PreviewLimit == 10
\* how many data rows a sheet to preview has
MaxPreviewRows == 12

\* Iterator::take
\* (a variant without a limit)
TakeAll(seq, n) == seq
Take(seq, n) == SubSeq(seq, 1, IF Len(seq) < n THEN Len(seq) ELSE n)

\* Err(e) => return BadRequest
PreviewReadFailed ==
    /\ pc = "read_failed"
    /\ response' = Some([status |-> 400,
                         success |-> FALSE,
                         message |-> <<"Failed to read Excel file",
                                       Unwrap(read_error)>>,
                         records_processed |-> None,
                         records_inserted |-> None,
                         errors |-> << [row |-> None,
                                        error |-> Unwrap(read_error)] >>])
    /\ pc' = "done"
    /\ UNCHANGED <<aux_vars, query_vars, req, read_vars, loop_vars>>

\* the json! answer with the first records
PreviewRespond ==
    /\ pc = "read_ok"
    /\ response' = Some([status |-> 200,
                         success |-> TRUE,
                         message |-> <<"Preview of", Len(records)>>,
                         total_records |-> Len(records),
                         preview |-> Take(records, PreviewLimit)])
    /\ pc' = "done"
    /\ UNCHANGED <<aux_vars, query_vars, req, read_vars, loop_vars>>

\* sheets of k rows named by their number; in some every fourth row has no
\* name
PreviewRow(i, gaps) ==
    <<IF gaps /\ i % 4 = 0 THEN DataEmpty ELSE DataInt(i), DataInt(i * 1000)>>
PreviewRequests ==
    [file : {Workbook(<<Sheet("Sheet1", ImportHeader,
                              [i \in 1..k |-> PreviewRow(i, gaps)])>>) :
                k \in 0..MaxPreviewRows, gaps \in BOOLEAN}
            \cup {Unreadable},
     sheet_name : {None, Some("Missing")}]

InitPreview == InitWith(PreviewRequests)

NextPreview ==
    \/ Read
    \/ PreviewReadFailed
    \/ PreviewRespond

SpecPreview == InitPreview /\ [][NextPreview]_vars

\* ------------------------------------------------------------------ preview: claims

\* C27: the preview makes no insert and writes no row; its answer has at
\* most 10 records, which are the first records read, in order, all of
\* them when there are fewer than 10; and total_records is the number of
\* records read.
C27_PreviewReadOnly ==
    /\ projects = <<ExistingRow>>
    /\ attempts = << >>
    /\ inserted_count = 0
    /\ (pc = "done" /\ read_error = None) =>
         LET r == Unwrap(response)
             n == Len(records)
         IN  /\ r.status = 200
             /\ r.total_records = n
             /\ Len(r.preview) <= 10
             /\ Len(r.preview) = IF n <= 10 THEN n ELSE 10
             /\ \A i \in 1..Len(r.preview) : r.preview[i] = records[i]
    /\ (pc = "done" /\ read_error # None) => Unwrap(response).status = 400

\* twelve records read: the preview has the first ten
C27_Witness ==
    /\ pc = "done"
    /\ Len(records) = 12
    /\ Unwrap(response).total_records = 12
    /\ Len(Unwrap(response).preview) = 10
    /\ Unwrap(response).preview[10].project_name = Some(<<"1", "0">>)
    /\ projects = <<ExistingRow>>

\* ------------------------------------------------------------------ the query that is run: claims

\* C28: the guard does not change the query that is run: for every query
\* that is accepted the text given to the store is the text of the request
\* as it came, with its letter case and its whitespace, and it is given
\* once.
C28_OriginalQueryExecuted ==
    /\ \A k \in 1..Len(executed) : executed[k] = query_req
    /\ Len(executed) <= 1
    /\ (qpc \in {"rows", "done"} /\ BeginsWithSelect(query_req)) =>
         executed = <<query_req>>
    /\ (executed # << >> /\ query_req = <<"\t", "S", "E", "L", "E", "C", "T", " ", "1", "\n">>) =>
         /\ executed[1] = <<"\t", "S", "E", "L", "E", "C", "T", " ", "1", "\n">>
         /\ executed[1] # <<"s", "e", "l", "e", "c", "t", " ", "1">>
         /\ executed[1] # <<"S", "E", "L", "E", "C", "T", " ", "1">>

\* the query "\tSELECT 1\n" was run as it came
C28_Witness ==
    /\ qpc = "done"
    /\ query_req = <<"\t", "S", "E", "L", "E", "C", "T", " ", "1", "\n">>
    /\ executed = <<<<"\t", "S", "E", "L", "E", "C", "T", " ", "1", "\n">>>>
    /\ Unwrap(query_response).status = 200

\* ------------------------------------------------------------------ fetch_csv

\* the json! answers of fetch_csv, with their status
FetchAnswer(status, success, error, data) ==
    [status |-> status, success |-> success, error |-> error, data |-> data]

\* url.contains("docs.google.com/spreadsheets")
UrlAllowed(url) == Contains(url, <<"d", "o", "c", "s", ".", "g", "o", "o", "g", "l", "e", ".", "c", "o", "m", "/", "s", "p", "r", "e", "a", "d", "s", "h", "e", "e", "t", "s">>)

\* if !url.contains(..) { return BadRequest }
FetchCsvRejected ==
    /\ fpc = "guard"
    /\ ~UrlAllowed(fetch_url)
    /\ fetch_response' =
         Some(FetchAnswer(400, FALSE,
                          Some(<<"Only Google Sheets URLs are allowed">>), None))
    /\ fpc' = "done"
    /\ UNCHANGED <<import_vars, query_vars, pool_vars, env_vars, fetch_url, outbound>>

\* reqwest::get(url): the request goes out
FetchCsvGet ==
    /\ fpc = "guard"
    /\ UrlAllowed(fetch_url)
    /\ outbound' = Append(outbound, fetch_url)
    /\ fpc' = "sent"
    /\ UNCHANGED <<import_vars, query_vars, pool_vars, env_vars, fetch_url,
                   fetch_response>>

\* Err(e) of reqwest::get
FetchCsvNetworkError ==
    /\ fpc = "sent"
    /\ \E e \in {"timed out", "connection refused"} :
         fetch_response' =
           Some(FetchAnswer(200, FALSE, Some(<<"Network error", e>>), None))
    /\ fpc' = "done"
    /\ UNCHANGED <<import_vars, query_vars, pool_vars, env_vars, fetch_url, outbound>>

\* a response whose status is no success
FetchCsvHttpError ==
    /\ fpc = "sent"
    /\ \E status \in {403, 404, 500} :
         fetch_response' =
           Some(FetchAnswer(200, FALSE, Some(<<"HTTP", status>>), None))
    /\ fpc' = "done"
    /\ UNCHANGED <<import_vars, query_vars, pool_vars, env_vars, fetch_url, outbound>>

\* Err(e) of response.text()
FetchCsvBodyError ==
    /\ fpc = "sent"
    /\ fetch_response' =
         Some(FetchAnswer(200, FALSE,
                          Some(<<"Failed to read response data", "decode">>),
                          None))
    /\ fpc' = "done"
    /\ UNCHANGED <<import_vars, query_vars, pool_vars, env_vars, fetch_url, outbound>>

\* the texts a response can have
Bodies == {<<>>, <<" ", "\n">>, <<"a", ",", "b", "\n", "1", ",", "2", "\n">>, <<"<", "h", "t", "m", "l", ">">>}

\* Ok(csv_data): an empty text is answered as a failure
FetchCsvBody ==
    /\ fpc = "sent"
    /\ \E csv_data \in Bodies :
         fetch_response' =
           IF Trim(csv_data) = << >>
           THEN Some(FetchAnswer(200, FALSE,
                                 Some(<<"The spreadsheet appears to be empty or not publicly accessible">>),
                                 None))
           ELSE Some(FetchAnswer(200, TRUE, None, Some(csv_data)))
    /\ fpc' = "done"
    /\ UNCHANGED <<import_vars, query_vars, pool_vars, env_vars, fetch_url, outbound>>

\* the urls of the requests
Urls ==
    {<<"h", "t", "t", "p", "s", ":", "/", "/", "d", "o", "c", "s", ".", "g", "o", "o", "g", "l", "e", ".", "c", "o", "m", "/", "s", "p", "r", "e", "a", "d", "s", "h", "e", "e", "t", "s", "/", "d", "/", "4", "/", "e", "d", "i", "t", "#", "g", "i", "d", "=", "0">>,
     <<"h", "t", "t", "p", "s", ":", "/", "/", "e", "v", "i", "l", ".", "e", "x", "a", "m", "p", "l", "e", "/", "d", "o", "c", "s", ".", "g", "o", "o", "g", "l", "e", ".", "c", "o", "m", "/", "s", "p", "r", "e", "a", "d", "s", "h", "e", "e", "t", "s", "/", "d", "/", "5">>,
     <<"h", "t", "t", "p", "s", ":", "/", "/", "d", "o", "c", "s", ".", "g", "o", "o", "g", "l", "e", ".", "c", "o", "m", "/", "s", "p", "r", "e", "a", "d", "s", "h", "e", "e", "t", "s", "/", "d", "/", "1", "/", "e", "x", "p", "o", "r", "t", "?", "f", "o", "r", "m", "a", "t", "=", "c", "s", "v">>,
     <<"h", "t", "t", "p", ":", "/", "/", "d", "o", "c", "s", ".", "g", "o", "o", "g", "l", "e", ".", "c", "o", "m", "/", "s", "p", "r", "e", "a", "d", "s", "h", "e", "e", "t", "s", "/", "d", "/", "2">>,
     <<"h", "t", "t", "p", "s", ":", "/", "/", "d", "o", "c", "s", ".", "g", "o", "o", "g", "l", "e", ".", "c", "o", "m", "/", "s", "p", "r", "e", "a", "d", "s", "h", "e", "e", "t", "s">>,
     <<"h", "t", "t", "p", "s", ":", "/", "/", "d", "o", "c", "s", ".", "g", "o", "o", "g", "l", "e", ".", "c", "o", "m", "/", "s", "p", "r", "e", "a", "d", "s", "h", "e", "e", "t", "s", "/", "d", "/", "e", "/", "3", "/", "p", "u", "b", "?", "o", "u", "t", "p", "u", "t", "=", "c", "s", "v">>,
     <<"h", "t", "t", "p", ":", "/", "/", "e", "v", "i", "l", ".", "e", "x", "a", "m", "p", "l", "e", "/", "d", "o", "c", "s", ".", "g", "o", "o", "g", "l", "e", ".", "c", "o", "m", "/", "s", "p", "r", "e", "a", "d", "s", "h", "e", "e", "t", "s">>,
     <<"h", "t", "t", "p", "s", ":", "/", "/", "e", "v", "i", "l", ".", "e", "x", "a", "m", "p", "l", "e", "/", "?", "u", "=", "d", "o", "c", "s", ".", "g", "o", "o", "g", "l", "e", ".", "c", "o", "m", "/", "s", "p", "r", "e", "a", "d", "s", "h", "e", "e", "t", "s">>,
     <<"h", "t", "t", "p", ":", "/", "/", "1", "6", "9", ".", "2", "5", "4", ".", "1", "6", "9", ".", "2", "5", "4", "/", "m", "e", "t", "a", "#", "d", "o", "c", "s", ".", "g", "o", "o", "g", "l", "e", ".", "c", "o", "m", "/", "s", "p", "r", "e", "a", "d", "s", "h", "e", "e", "t", "s">>,
     <<"h", "t", "t", "p", ":", "/", "/", "l", "o", "c", "a", "l", "h", "o", "s", "t", ":", "5", "4", "3", "2", "/", "d", "o", "c", "s", ".", "g", "o", "o", "g", "l", "e", ".", "c", "o", "m", "/", "s", "p", "r", "e", "a", "d", "s", "h", "e", "e", "t", "s", "/", "d", "/", "1">>,
     <<"h", "t", "t", "p", "s", ":", "/", "/", "e", "x", "a", "m", "p", "l", "e", ".", "c", "o", "m", "/", "d", "a", "t", "a", ".", "c", "s", "v">>,
     <<"h", "t", "t", "p", "s", ":", "/", "/", "d", "o", "c", "s", ".", "g", "o", "o", "g", "l", "e", ".", "c", "o", "m", "/", "d", "o", "c", "u", "m", "e", "n", "t", "/", "d", "/", "1">>,
     <<"h", "t", "t", "p", "s", ":", "/", "/", "D", "O", "C", "S", ".", "G", "O", "O", "G", "L", "E", ".", "C", "O", "M", "/", "s", "p", "r", "e", "a", "d", "s", "h", "e", "e", "t", "s", "/", "d", "/", "1">>,
     <<"h", "t", "t", "p", "s", ":", "/", "/", "s", "h", "e", "e", "t", "s", ".", "g", "o", "o", "g", "l", "e", ".", "c", "o", "m", "/", "d", "/", "1">>,
     <<"d", "o", "c", "s", ".", "g", "o", "o", "g", "l", "e", ".", "c", "o", "m", "/", "s", "p", "r", "e", "a", "d", "s", "h", "e", "e", "t">>,
     <<>>}

InitFetch ==
    /\ ImportIdle
    /\ QueryIdle
    /\ PoolIdle
    /\ EnvIdle
    /\ fetch_url \in Urls
    /\ fpc = "guard"
    /\ outbound = << >>
    /\ fetch_response = None

NextFetch ==
    \/ FetchCsvRejected
    \/ FetchCsvGet
    \/ FetchCsvNetworkError
    \/ FetchCsvHttpError
    \/ FetchCsvBodyError
    \/ FetchCsvBody

SpecFetch == InitFetch /\ [][NextFetch]_vars

\* ------------------------------------------------------------------ fetch_csv: claims

\* a URL of Google Sheets: of the host docs.google.com, with the path of
\* the spreadsheets
GoogleSheetsUrl(url) ==
    \/ StartsWith(url, <<"h", "t", "t", "p", "s", ":", "/", "/", "d", "o", "c", "s", ".", "g", "o", "o", "g", "l", "e", ".", "c", "o", "m", "/", "s", "p", "r", "e", "a", "d", "s", "h", "e", "e", "t", "s">>)
    \/ StartsWith(url, <<"h", "t", "t", "p", ":", "/", "/", "d", "o", "c", "s", ".", "g", "o", "o", "g", "l", "e", ".", "c", "o", "m", "/", "s", "p", "r", "e", "a", "d", "s", "h", "e", "e", "t", "s">>)

\* C29, as stated: a request goes out only for a URL of Google Sheets; any
\* other URL is answered 400 with success false, and no request goes out
\* for it.
C29_AsStated ==
    /\ outbound # << >> => GoogleSheetsUrl(fetch_url)
    /\ (~GoogleSheetsUrl(fetch_url) /\ fpc = "done") =>
         /\ Unwrap(fetch_response).status = 400
         /\ Unwrap(fetch_response).success = FALSE
         /\ outbound = << >>

\* a request has gone out to a host that is not Google's, for a URL that
\* has the text of the test in its path
C29_Witness ==
    /\ fetch_url = <<"h", "t", "t", "p", ":", "/", "/", "e", "v", "i", "l", ".", "e", "x", "a", "m", "p", "l", "e", "/", "d", "o", "c", "s", ".", "g", "o", "o", "g", "l", "e", ".", "c", "o", "m", "/", "s", "p", "r", "e", "a", "d", "s", "h", "e", "e", "t", "s">>
    /\ outbound = <<fetch_url>>
    /\ fpc = "done"
    /\ Unwrap(fetch_response).status = 200
    /\ Unwrap(fetch_response).success

\* ------------------------------------------------------------------ save_env_config

MaxSaves == 2

LF == "\n"
CR == "\r"
\* a byte that is part of no UTF-8 text
NotUtf8 == "\\xFF"

\* the texts up to each "\n" of a file; the last one may have no "\n"
RECURSIVE SplitLines(_)
SplitLines(text) ==
    IF text = << >> THEN << >>
    ELSE LET ends == {i \in 1..Len(text) : text[i] = LF}
         IN  IF ends = {} THEN <<text>>
             ELSE LET n == CHOOSE i \in ends : \A j \in ends : i <= j
                  IN  <<SubSeq(text, 1, n - 1)>>
                        \o SplitLines(SubSeq(text, n + 1, Len(text)))

\* BufRead::lines takes the "\r" of a "\r\n" away too
StripCr(line) ==
    IF line # << >> /\ line[Len(line)] = CR
    THEN SubSeq(line, 1, Len(line) - 1)
    ELSE line

\* BufRead::lines gives an Err for a line that is no UTF-8 text
ValidUtf8(line) == \A i \in 1..Len(line) : line[i] # NotUtf8

\* File::open(env_path) and the loop over reader.lines(): a file that
\* cannot be opened gives no lines, a line that is an Err is left out
ReadEnvLines(file) ==
    IF IsNone(file) THEN << >>
    ELSE LET valid == SelectSeq(SplitLines(Unwrap(file)), ValidUtf8)
         IN  [i \in 1..Len(valid) |-> StripCr(valid[i])]

\* the keys, in the order of the calls of update_env_var, and the field of
\* the request each one is given
EnvKeys ==
    <<[key |-> <<"G", "O", "O", "G", "L", "E", "_", "P", "R", "O", "J", "E", "C", "T", "_", "I", "D">>, field |-> "google_project_id"],
      [key |-> <<"G", "O", "O", "G", "L", "E", "_", "U", "S", "E", "R", "_", "E", "M", "A", "I", "L">>, field |-> "google_user_email"],
      [key |-> <<"G", "O", "O", "G", "L", "E", "_", "O", "R", "G", "_", "I", "D">>, field |-> "google_org_id"],
      [key |-> <<"G", "O", "O", "G", "L", "E", "_", "B", "I", "L", "L", "I", "N", "G", "_", "I", "D">>, field |-> "google_billing_id"],
      [key |-> <<"G", "O", "O", "G", "L", "E", "_", "S", "E", "R", "V", "I", "C", "E", "_", "K", "E", "Y">>, field |-> "google_service_key"]>>

\* if let Some(val) = value { if !val.is_empty() {
Supplied(value) == IsSome(value) /\ Unwrap(value) # << >>

\* the closure update_env_var: the first line that starts with "KEY=" is
\* replaced, or the line is pushed
UpdateEnvVar(state, key, value) ==
    IF Supplied(value)
    THEN LET new_line == key \o <<"=">> \o Unwrap(value)
             found == {i \in 1..Len(state.env_lines) :
                         StartsWith(state.env_lines[i], key \o <<"=">>)}
         IN  [env_lines |->
                IF found # {}
                THEN [state.env_lines EXCEPT
                        ![CHOOSE i \in found : \A j \in found : i <= j] =
                          new_line]
                ELSE Append(state.env_lines, new_line),
              updated_keys |-> state.updated_keys \cup {key}]
    ELSE state

\* the five calls of update_env_var, from the i-th on
RECURSIVE UpdateFrom(_, _, _)
UpdateFrom(state, request, i) ==
    IF i > Len(EnvKeys) THEN state
    ELSE UpdateFrom(UpdateEnvVar(state, EnvKeys[i].key,
                                 request[EnvKeys[i].field]),
                    request, i + 1)

\* writeln!(file, "{}", line) for each line
RECURSIVE WriteLines(_)
WriteLines(lines) ==
    IF lines = << >> THEN << >>
    ELSE Head(lines) \o <<LF>> \o WriteLines(Tail(lines))

\* the closure set_env_var, called for the five keys
SetEnvVars(env, request) ==
    [i \in 1..Len(EnvKeys) |->
       IF Supplied(request[EnvKeys[i].field])
       THEN request[EnvKeys[i].field]
       ELSE env[i]]

\* the answers of save_env_config
EnvAnswer(status, success, updated_keys, error) ==
    [status |-> status, success |-> success, updated_keys |-> updated_keys,
     error |-> error]

\* the whole handler when the file is written
SaveEnvConfig ==
    /\ saves < MaxSaves
    /\ LET after == UpdateFrom([env_lines |-> ReadEnvLines(env_file),
                                updated_keys |-> {}], env_req, 1)
       IN  /\ env_file' = Some(WriteLines(after.env_lines))
           /\ env_response' =
                Some(EnvAnswer(200, Some(TRUE), after.updated_keys, None))
    /\ environ' = SetEnvVars(environ, env_req)
    /\ saves' = saves + 1
    /\ UNCHANGED <<import_vars, query_vars, pool_vars, fetch_vars, env_req>>

\* Err(e) of OpenOptions::open: nothing is written
SaveEnvConfigOpenFailed ==
    /\ saves < MaxSaves
    /\ env_response' =
         Some(EnvAnswer(500, Some(FALSE), {},
                        Some(<<"Failed to write .env file">>)))
    /\ saves' = saves + 1
    /\ UNCHANGED <<import_vars, query_vars, pool_vars, fetch_vars, env_req,
                   env_file, environ>>

\* Err(e) of a writeln!: the file was truncated and has the lines written
\* before; the error is returned with `?`
SaveEnvConfigWriteFailed ==
    /\ saves < MaxSaves
    /\ LET after == UpdateFrom([env_lines |-> ReadEnvLines(env_file),
                                updated_keys |-> {}], env_req, 1)
       IN  \E n \in 0..(Len(after.env_lines) - 1) :
             env_file' = Some(WriteLines(SubSeq(after.env_lines, 1, n)))
    /\ env_response' =
         Some(EnvAnswer(500, None, {},
                        Some(<<"Failed to write to .env file">>)))
    /\ saves' = saves + 1
    /\ UNCHANGED <<import_vars, query_vars, pool_vars, fetch_vars, env_req,
                   environ>>

\* the requests: a field is absent, empty or has a text; the text of a
\* service key can have line breaks
EnvRequests ==
    {[google_project_id |-> a, google_user_email |-> b, google_org_id |-> c,
      google_billing_id |-> d, google_service_key |-> e] :
        a \in {None, Some(<<>>), Some(<<"p", "1">>), Some(<<"p", "2">>)},
        b \in {None, Some(<<"a">> \o <<"@">> \o <<"b", ".", "c">>)},
        c \in {None, Some(<<"7">>)},
        d \in {None, Some(<<>>)},
        e \in {None, Some(<<"k">>), Some(<<"{", "\n", "}">>)}}

\* the files .env there can be: none, or texts with other lines, with lines
\* of the keys, with "\r\n", without a last "\n", with a line that is no
\* UTF-8 text
EnvFiles ==
    {None,
     Some(<<>>),
     Some(<<"O", "T", "H", "E", "R", "=", "1", "\n">>),
     Some(<<"G", "O", "O", "G", "L", "E", "_", "P", "R", "O", "J", "E", "C", "T", "_", "I", "D", "=", "o", "l", "d", "\n", "O", "T", "H", "E", "R", "=", "1", "\n">>),
     Some(<<"#", " ", "k", "e", "y", "s", "\n", "G", "O", "O", "G", "L", "E", "_", "O", "R", "G", "_", "I", "D", "=", "1", "\n", "G", "O", "O", "G", "L", "E", "_", "P", "R", "O", "J", "E", "C", "T", "_", "I", "D", "=", "o", "l", "d", "\n", "G", "O", "O", "G", "L", "E", "_", "P", "R", "O", "J", "E", "C", "T", "_", "I", "D", "=", "o", "l", "d", "e", "r">>),
     Some(<<"G", "O", "O", "G", "L", "E", "_", "S", "E", "R", "V", "I", "C", "E", "_", "K", "E", "Y", "=", "k", "\n", "G", "O", "O", "G", "L", "E", "_", "P", "R", "O", "J", "E", "C", "T", "_", "I", "D", "_", "O", "L", "D", "=", "0", "\n">>),
     Some(<<"A", "=", "1">> \o <<CR, LF>> \o <<"G", "O", "O", "G", "L", "E", "_", "U", "S", "E", "R", "_", "E", "M", "A", "I", "L", "=", "x">> \o <<CR, LF>>),
     Some(<<"B", "=", "2", "\n">> \o <<"#", NotUtf8, LF>> \o <<"G", "O", "O", "G", "L", "E", "_", "B", "I", "L", "L", "I", "N", "G", "_", "I", "D", "=", "9", "\n">>)}

InitEnv ==
    /\ ImportIdle
    /\ QueryIdle
    /\ PoolIdle
    /\ FetchIdle
    /\ env_req \in EnvRequests
    /\ env_file \in EnvFiles
    /\ environ = [i \in 1..Len(EnvKeys) |-> None]
    /\ saves = 0
    /\ env_response = None

NextEnv ==
    \/ SaveEnvConfig
    \/ SaveEnvConfigOpenFailed
    \/ SaveEnvConfigWriteFailed

SpecEnv == InitEnv /\ [][NextEnv]_vars

\* ------------------------------------------------------------------ save_env_config: claims

\* the lines a file holds
LinesHeld(file) ==
    IF IsNone(file) THEN << >>
    ELSE LET held_lines == SplitLines(Unwrap(file))
         IN  [i \in 1..Len(held_lines) |-> StripCr(held_lines[i])]

\* the keys the request supplies with a text that is not empty
SuppliedKeys == {i \in 1..Len(EnvKeys) : Supplied(env_req[EnvKeys[i].field])}

\* the line KEY=value of a supplied key
LineOf(i) == EnvKeys[i].key \o <<"=">> \o Unwrap(env_req[EnvKeys[i].field])

\* the position of the first of the lines that starts with KEY=, 0 if
\* there is none
FirstLineOf(lines, i) ==
    LET found == {j \in 1..Len(lines) :
                    StartsWith(lines[j], EnvKeys[i].key \o <<"=">>)}
    IN  IF found = {} THEN 0 ELSE CHOOSE j \in found : \A k \in found : j <= k

\* a request has just been answered with success
SavedNow ==
    /\ saves' = saves + 1
    /\ Unwrap(env_response').status = 200

\* what the file holds after a save, given what it held before
SavedAsStated(old, new) ==
    LET replaced == {FirstLineOf(old, i) : i \in SuppliedKeys} \ {0}
        added == {i \in SuppliedKeys : FirstLineOf(old, i) = 0}
    IN  /\ \A i \in SuppliedKeys :
             IF FirstLineOf(old, i) # 0
             THEN /\ FirstLineOf(old, i) <= Len(new)
                  /\ new[FirstLineOf(old, i)] = LineOf(i)
             ELSE \E j \in (Len(old) + 1)..Len(new) : new[j] = LineOf(i)
        /\ Len(new) = Len(old) + Cardinality(added)
        /\ \A j \in 1..Len(old) :
             j \notin replaced => j <= Len(new) /\ new[j] = old[j]

\* C30, as stated: after a successful request, each key supplied with a
\* text that is not empty has its line KEY=value in the file, at the place of
\* the first line that started with KEY= or after the lines there were;
\* every other line is as it was and where it was; the keys that are
\* absent or empty are not in updated_keys; and the same request once more
\* leaves the file as it is.
C30_AsStated ==
    [][SavedNow =>
         /\ SavedAsStated(LinesHeld(env_file), LinesHeld(env_file'))
         /\ Unwrap(env_response').updated_keys =
              {EnvKeys[i].key : i \in SuppliedKeys}
         /\ (saves >= 1 /\ Unwrap(env_response).status = 200) =>
              env_file' = env_file]_vars

\* a service key of two lines has been saved twice, where there was no
\* file: the file has three lines and no line KEY=value
C30_Witness ==
    /\ saves = 2
    /\ Unwrap(env_response).status = 200
    /\ env_req.google_service_key = Some(<<"{", "\n", "}">>)
    /\ env_file = Some(<<"G", "O", "O", "G", "L", "E", "_", "S", "E", "R", "V", "I", "C", "E", "_", "K", "E", "Y", "=", "{", "\n", "}", "\n", "}", "\n">>)

====
